---- MODULE Spec2Model ----
(***************************************************************************)
(* Model of the real-time aggregation pipeline of the signals engine:      *)
(* TradeWebSocket (src/src/websocket_handler.py) and                       *)
(* create_candle_from_trades (src/src/candle_aggregator.py).               *)
(*                                                                         *)
(* Times are wall-clock / exchange milliseconds.  Prices and sizes are     *)
(* the parsed numeric values of a trade message.  An optional value        *)
(* (Python None or a value) is a sequence of length 0 or 1.                *)
(*                                                                         *)
(* Every coroutine of the source runs on one asyncio loop.  Neither the    *)
(* body of _process_trade_to_candle nor the locked section of the timer    *)
(* contains an await, so a symbol's lock is never contended: an ingestion  *)
(* and the finalization of one symbol are each one atomic step.  The       *)
(* wall clock is taken to be non-decreasing.                               *)
(***************************************************************************)
EXTENDS Integers, Sequences, FiniteSets, TLC

(***************************************************************************)
(* Program constants                                                       *)
(***************************************************************************)
candle_interval_ms == 10000

DEDUP_SOFT_CAP == 1000

DEDUP_TTL_MS == 60000

TIMER_SLEEP_MS == 10000

\* The capacity the bar store is specified to have (spec 4.4, and the
\* expectation of TESTS/iteration_2/test_01_buffer_memory.py).
WINDOW_MAX == 100

\* src/config.py: bars a window needs before it is evaluated.
WARMUP_INTERVALS == 20

\* signal_processor.generate_signal: its own minimum number of candles.
MIN_CANDLES == 20

\* main.py: a coin without any candle is excluded after this long (600 s).
EXCLUDE_AFTER_MS == 600000

\* strategy_client.send_strategy_with_retry: attempts per post, and the
\* pause between two attempts (2 s).
max_retries == 3

RETRY_SLEEP_MS == 2000

\* src/config.py: limits of the distribution of the coins over connections.
MAX_CONNECTIONS == 20

MAX_COINS_PER_CONNECTION == 10

\* _start_single_connection: seconds without a message after which
\* wait_for gives up the read.
READ_TIMEOUT_S == 300

\* src/config.py: the strategies and the servers a signal is posted to.
DEFAULT_STRATEGY_NAMES == <<"xxx">>

DEFAULT_SERVER_URLS == <<"localhost", "192.168.1.100">>

(***************************************************************************)
(* Bounds of the model and the inputs it enumerates                        *)
(***************************************************************************)
\* Trades accepted over a run of Spec.
MaxMessages == 2

\* The wall clock of Spec stops after this many candle intervals.
MaxIntervals == 3

\* SpecDedup: trades accepted beyond DEDUP_SOFT_CAP, and the candle intervals
\* after which its wall clock stops.
BurstExtra == 2

BurstIntervals == 2

\* SpecLongRun: the candle intervals after which its wall clock stops.
LongRunIntervals == 102

\* SpecDriver: iterations of the driver loop, and steps of its wall clock.
MaxIterations == 2

MaxDriverTicks == 1

\* SpecToggle: iterations of the driver loop.
ToggleIterations == 5

\* SpecPassError: passes of the timer that raise, the trades accepted and
\* the candle intervals after which the wall clock stops.
MaxPassErrors == 1

PassErrorMessages == 2

PassErrorIntervals == 3

\* SpecShutdown: attempts of a connection to connect that fail in a row,
\* and the candle intervals after which the wall clock stops.
ShutdownFailures == 1

ShutdownIntervals == 2

\* SpecTwin: distinct trades handed to the objects, and the candle
\* intervals after which the wall clock stops.
TwinMessages == 2

TwinIntervals == 2

\* SpecReconnect: attempts of a connection to connect that fail in a row.
ReconnectFailures == 2

\* SpecReaders: trades accepted, candle intervals after which the wall
\* clock stops, and iterations of the driver loop.
ReaderMessages == 2

ReaderIntervals == 2

ReaderIterations == 1

\* SpecCandleLog: trades accepted, and the candle intervals after which the
\* wall clock stops.
LogMessages == 2

LogIntervals == 2

\* SpecExclude: iterations of the driver loop, and steps of its wall clock.
ExcludeIterations == 3

ExcludeTicks == 3

\* SpecConnection: attempts to connect that fail in a row.
MaxFailures == 6

\* SpecStartup: the longest symbol list, and the largest values of
\* max_coins_per_connection and max_connections.
MaxSymbols == 6

MaxPerConnection == 3

MaxConnectionLimit == 3

\* Names for the symbols of the lists of SpecStartup.
SymbolNames == <<"AAA", "BBB", "CCC", "DDD", "EEE", "FFF", "GGG", "HHH">>

\* The universe of symbols, self.coins, in order.
coins == <<"AAA", "BBB">>

Symbols == {coins[i] : i \in 1..Len(coins)}

\* Wall-clock increments between two observations of time.time(): passes
\* may run off the boundaries and may skip boundaries.
ClockSteps == {5000}

\* Exchange timestamps of the trades of Spec: two inside the first interval,
\* one exactly on a boundary, one in a later interval.
TickTimes == {1000, 5000, 10000, 25000}

\* (price, size) of the trades of Spec: a regular trade and a trade of size
\* zero at another price.
TickQuotes == {<<100, 2>>, <<102, 0>>}

\* SpecInvalidPrice: timestamps and (price, size) of its trades, which
\* include a price of zero and a negative price.
InvalidTickTimes == {1000, 15000}

InvalidTickQuotes == {<<100, 2>>, <<0, 1>>, <<-5, 1>>}

\* SpecDriver: the wall clock moves in steps longer than EXCLUDE_AFTER_MS.
DriverClockSteps == {601000}

\* Exceptions a pass of the timer may raise.
PassErrors == {"KeyError", "TypeError"}

\* Answers to a POST: an HTTP status, or 0 when the request fails without
\* an answer (connection refused, timeout).
HttpStatuses == {0, 200, 204, 500}

None == <<>>

Some(v) == <<v>>

VARIABLES
    now,                     \* time.time() * 1000
    running,                 \* self.running
    candles_buffer,          \* self.candles_buffer[coin]: list of candles
    candle_start_time,       \* current_candle_data[coin]['candle_start_time']
    last_finalized_boundary, \* current_candle_data[coin]['last_finalized_boundary']
    last_close_price,        \* current_candle_data[coin]['last_close_price']
    trades_by_interval,      \* self._trades_by_interval[coin]: boundary -> trades
    seen_trade_signatures,   \* self._seen_trade_signatures[coin]
    candle_sequence,         \* self._candle_sequence
    timer_pc,                \* position of _candle_finalization_timer
    wake_at,                 \* wall-clock time the timer's sleep ends
    insert_count,            \* history: bucket insertions per coin and signature
    evict_count,             \* history: dedup evictions per coin and signature
    accepted,                \* history: trades that passed the deduplicator
    consumed_buckets,        \* history: per coin, the bucket each real candle was built from
    emitted,                 \* history: every candle appended to a buffer, in order
    driver_pc,               \* position of the loop of main()
    excluded_coins,          \* main: excluded_coins
    coin_first_seen,         \* main: coin_first_seen
    coin_last_signal,        \* main: coin_last_signal, None for a missing key
    warmup_complete,         \* main: warmup_complete
    coin_signals,            \* main: coin_signals, in insertion order
    signal_index,            \* position of "for coin, ... in coin_signals.items()"
    post_index,              \* position of the loops of send_signals_loop
    attempt,                 \* send_strategy_with_retry: attempt
    sleep_ms,                \* the pause send_strategy_with_retry is suspended in, or 0
    iterations,              \* history: iterations of the driver loop begun
    outputs,                 \* history: per coin, the signals the driver processed
    signal_rows,             \* history: per coin, rows written to signals.json
    posted,                  \* history: per coin and pair, calls of send_signal
    post_statuses,           \* history: the answers to the attempts of the latest post
    conn_pc,                 \* per connection: position of _start_single_connection
    consecutive_failures,    \* per connection: consecutive_failures
    reconnect_delay,         \* per connection: reconnect_delay, in seconds
    reconnect_count,         \* self._reconnect_count[connection_id]
    failures_since_connect,  \* history: failed connects and lost connections since the last successful connect
    timed_out,               \* history: the socket in use has had a read time out
    filtered_coins,          \* main: filtered_coins, the self.coins of the aggregator
    max_connections,         \* self.max_connections
    max_coins_per_connection, \* self.max_coins_per_connection
    connection_tasks,        \* the coin lists of the connection tasks in self._connection_tasks
    main_pc,                 \* position of main()
    store_count,             \* history: per coin, the bars in the store at the driver's latest iteration
    cancel_pending,          \* the tasks stop() has cancelled that have not been resumed since
    pass_errors,             \* history: passes of the timer that raised
    pass_raised,             \* history: the latest pass of the timer raised
    instances,               \* SpecTwin: the state of two TradeWebSocket objects
    candle_log_queue,        \* config._candle_log_queue: the candles put, oldest first
    written                  \* the candles _candle_log_worker has written to websocket.json

aggVars == <<candles_buffer, candle_start_time, last_finalized_boundary,
             last_close_price, trades_by_interval, candle_sequence,
             consumed_buckets, emitted>>

dedupVars == <<seen_trade_signatures, insert_count, evict_count, accepted>>

timerVars == <<timer_pc, wake_at, pass_errors, pass_raised>>

driverVars == <<driver_pc, excluded_coins, coin_first_seen, coin_last_signal,
                warmup_complete, coin_signals, signal_index, iterations,
                outputs, signal_rows, store_count>>

postVars == <<post_index, attempt, sleep_ms, posted, post_statuses>>

connVars == <<conn_pc, consecutive_failures, reconnect_delay, reconnect_count,
              failures_since_connect, timed_out>>

startVars == <<filtered_coins, max_connections, max_coins_per_connection,
               connection_tasks, main_pc>>

stopVars == <<cancel_pending>>

twinVars == <<instances>>

logVars == <<candle_log_queue, written>>

vars == <<now, running, aggVars, dedupVars, timerVars, driverVars, postVars,
          connVars, startVars, stopVars, twinVars, logVars>>

(***************************************************************************)
(* create_candle_from_trades                                               *)
(***************************************************************************)
SeqMax(s) == CHOOSE x \in {s[i] : i \in 1..Len(s)} : \A j \in 1..Len(s) : s[j] <= x

SeqMin(s) == CHOOSE x \in {s[i] : i \in 1..Len(s)} : \A j \in 1..Len(s) : x <= s[j]

RECURSIVE SeqSum(_)
SeqSum(s) == IF s = <<>> THEN 0 ELSE s[1] + SeqSum(Tail(s))

Clamp(x, lo, hi) == IF x < lo THEN lo ELSE IF x > hi THEN hi ELSE x

\* Mutant: open and close are taken from the trades in price order, not in
\* the order they were appended.
create_candle_sorted(trades, timestamp) ==
    LET prices  == [i \in 1..Len(trades) |-> trades[i].price]
        volumes == [i \in 1..Len(trades) |-> trades[i].size]
    IN  [timestamp |-> timestamp,
         open      |-> SeqMin(prices),
         high      |-> SeqMax(prices),
         low       |-> SeqMin(prices),
         close     |-> SeqMax(prices),
         volume    |-> SeqSum(volumes)]

create_candle_from_trades(trades, timestamp) ==
    IF trades = <<>>
    THEN [timestamp |-> timestamp, open |-> 0, high |-> 0, low |-> 0,
          close |-> 0, volume |-> 0]
    ELSE LET prices  == [i \in 1..Len(trades) |-> trades[i].price]
             volumes == [i \in 1..Len(trades) |-> trades[i].size]
             hi0     == SeqMax(prices)
             lo0     == SeqMin(prices)
             hi      == IF lo0 > hi0 THEN lo0 ELSE hi0
             lo      == IF lo0 > hi0 THEN hi0 ELSE lo0
         IN  [timestamp |-> timestamp,
              open      |-> Clamp(trades[1].price, lo, hi),
              high      |-> hi,
              low       |-> lo,
              close     |-> Clamp(trades[Len(trades)].price, lo, hi),
              volume    |-> SeqSum(volumes)]

(***************************************************************************)
(* _process_trade_to_candle                                                *)
(***************************************************************************)
\* f"{timestamp}_{price}_{size}": injective on the parsed values.
Signature(trade) == <<trade.timestamp, trade.price, trade.size>>

\* int(sig.split('_')[0])
SignatureTimestamp(sig) == sig[1]

\* Mutant: the trade's timestamp is used as the interval key without
\* flooring it to a boundary.
IntervalStartUnfloored(timestamp) == timestamp

\* (trade_timestamp // candle_interval_ms) * candle_interval_ms
IntervalStart(timestamp) == (timestamp \div candle_interval_ms) * candle_interval_ms

\* Mutant: the signature of an accepted trade is not recorded.
MarkSeenForgotten(sigs, signature) == sigs

\* self._seen_trade_signatures[symbol].add(signature)
MarkSeen(sigs, signature) == sigs \cup {signature}

\* The signatures kept by the periodic cleanup, run with the trade's own
\* timestamp as current_time_ms.
CleanupSignatures(sigs, trade) ==
    IF Cardinality(sigs) > DEDUP_SOFT_CAP
    THEN {sig \in sigs : SignatureTimestamp(sig) >= trade.timestamp - DEDUP_TTL_MS}
    ELSE sigs

\* self._trades_by_interval[symbol][interval_key].append(trade_data)
AppendTrade(buckets, trade) ==
    LET interval_key == IntervalStart(trade.timestamp)
    IN  IF interval_key \in DOMAIN buckets
        THEN [buckets EXCEPT ![interval_key] = Append(@, trade)]
        ELSE buckets @@ (interval_key :> <<trade>>)

\* candle_start_time after a trade of the interval starting at start.
NextCandleStart(cst, start) ==
    IF cst = None \/ start > cst[1] THEN Some(start) ELSE cst

Bump(counts, key) ==
    IF key \in DOMAIN counts
    THEN [counts EXCEPT ![key] = @ + 1]
    ELSE counts @@ (key :> 1)

BumpAll(counts, keys) ==
    [k \in DOMAIN counts \cup keys |->
        (IF k \in DOMAIN counts THEN counts[k] ELSE 0) + (IF k \in keys THEN 1 ELSE 0)]

\* One trade message of the combined stream, parsed at lines 159-187 and
\* handed to _process_trade_to_candle.
ReceiveTrade(symbol, timestamp_ms, price, size) ==
    LET trade_data == [timestamp |-> timestamp_ms, price |-> price, size |-> size]
        signature  == Signature(trade_data)
        added      == MarkSeen(seen_trade_signatures[symbol], signature)
        kept       == CleanupSignatures(added, trade_data)
    IN  /\ running
        /\ IF signature \in seen_trade_signatures[symbol]
           THEN UNCHANGED <<aggVars, dedupVars>>
           ELSE /\ seen_trade_signatures' =
                       [seen_trade_signatures EXCEPT ![symbol] = kept]
                /\ evict_count' =
                       [evict_count EXCEPT ![symbol] = BumpAll(@, added \ kept)]
                /\ insert_count' =
                       [insert_count EXCEPT ![symbol] = Bump(@, signature)]
                /\ accepted' = accepted + 1
                /\ trades_by_interval' =
                       [trades_by_interval EXCEPT ![symbol] = AppendTrade(@, trade_data)]
                /\ candle_start_time' =
                       [candle_start_time EXCEPT
                          ![symbol] = NextCandleStart(@, IntervalStart(timestamp_ms))]
                /\ UNCHANGED <<candles_buffer, last_finalized_boundary,
                               last_close_price, candle_sequence,
                               consumed_buckets, emitted>>
        /\ UNCHANGED <<now, running, timerVars, driverVars, postVars,
                   connVars, startVars, stopVars, twinVars, logVars>>

(***************************************************************************)
(* _candle_finalization_timer                                              *)
(***************************************************************************)
\* Mutant: the forward-fill candle is the empty candle of
\* create_candle_from_trades (all zero) instead of the last close.
ForwardFillEmpty(boundary, close_price) ==
    [timestamp |-> boundary, open |-> 0, high |-> 0, low |-> 0, close |-> 0,
     volume |-> 0]

\* The forward-fill candle of lines 342-349.
ForwardFillCandle(boundary, close_price) ==
    [timestamp |-> boundary, open |-> close_price, high |-> close_price,
     low |-> close_price, close |-> close_price, volume |-> 0]

\* completed_candle['_sequence'] = self._candle_sequence
WithSequence(candle, sequence) ==
    [timestamp |-> candle.timestamp, open |-> candle.open, high |-> candle.high,
     low |-> candle.low, close |-> candle.close, volume |-> candle.volume,
     sequence |-> sequence]

\* del self._trades_by_interval[symbol][boundary]
DeleteBucket(buckets, boundary) ==
    [k \in DOMAIN buckets \ {boundary} |-> buckets[k]]

\* Mutant: a boundary without trades is filled at price 0 when the symbol
\* has no last close yet.
FillSourceZero(last_close) ==
    IF last_close = None THEN Some(0) ELSE last_close

\* The price a boundary without trades is forward-filled with, None when
\* there is none (line 340: last_close_price is not None).
FillSource(last_close) == last_close

\* Mutant: the counter is not advanced after it was assigned.
NextSequenceStuck(sequence) == sequence

\* self._candle_sequence += 1 (line 358).
NextSequence(sequence) == sequence + 1

\* Mutant: the last close is taken from the open of the candle.
ClosePriceOpen(candle) == Some(candle.open)

\* current_data['last_close_price'] = completed_candle['close'] (line 335).
ClosePrice(candle) == Some(candle.close)

\* Mutant: the new candle takes the place of the latest candle of the
\* buffer.
AppendCandleOverLast(buffer, candle) ==
    IF buffer = <<>> THEN <<candle>> ELSE [buffer EXCEPT ![Len(buffer)] = candle]

\* self.candles_buffer[symbol].append(completed_candle) (line 361).
AppendCandle(buffer, candle) == Append(buffer, candle)

\* The loop "while boundary < current_boundary" of lines 325-368, from the
\* state st = [buckets, last_close, buffer, sequence, consumed, emitted].
RECURSIVE FinalizeFrom(_, _, _)
FinalizeFrom(boundary, limit, st) ==
    IF ~(boundary < limit) THEN st
    ELSE IF boundary \in DOMAIN st.buckets /\ st.buckets[boundary] # <<>>
    THEN LET completed_candle ==
                 WithSequence(
                     create_candle_from_trades(st.buckets[boundary], boundary),
                     st.sequence)
         IN  FinalizeFrom(boundary + candle_interval_ms, limit,
                 [buckets    |-> DeleteBucket(st.buckets, boundary),
                  consumed   |-> st.consumed @@ (boundary :> st.buckets[boundary]),
                  last_close |-> ClosePrice(completed_candle),
                  buffer     |-> AppendCandle(st.buffer, completed_candle),
                  sequence   |-> NextSequence(st.sequence),
                  emitted    |-> Append(st.emitted, completed_candle)])
    ELSE IF FillSource(st.last_close) # None
    THEN LET completed_candle ==
                 WithSequence(
                     ForwardFillCandle(boundary, FillSource(st.last_close)[1]),
                     st.sequence)
         IN  FinalizeFrom(boundary + candle_interval_ms, limit,
                 [st EXCEPT
                    !.buffer   = AppendCandle(@, completed_candle),
                    !.sequence = NextSequence(@),
                    !.emitted  = Append(@, completed_candle)])
    ELSE FinalizeFrom(boundary + candle_interval_ms, limit, st)

\* Mutant: a symbol without a trade since its last pass is passed over.
StartBoundaryFromTrade(last_boundary, cst) == cst

\* The boundary a symbol's pass starts from (lines 308-324); None when the
\* symbol is skipped because it has had no trade yet.
StartBoundary(last_boundary, cst) ==
    IF last_boundary = 0
    THEN cst
    ELSE Some(last_boundary)

\* Mutant: the pass records the last boundary it emitted instead of the
\* boundary it stopped at, so the next pass emits that boundary again.
FinalizedBoundaryEmitted(boundary_now) == boundary_now - candle_interval_ms

\* last_finalized_boundary after the pass of a symbol (line 371).
FinalizedBoundary(boundary_now) == boundary_now

\* candle_start_time after the pass of a symbol (lines 375-378).
ResetCandleStart(cst, boundary_now) ==
    IF cst # None /\ cst[1] < boundary_now THEN None ELSE cst

\* The aggregator state as one record, for the loop over self.coins.
AggState ==
    [buffer    |-> candles_buffer,
     cst       |-> candle_start_time,
     finalized |-> last_finalized_boundary,
     close     |-> last_close_price,
     buckets   |-> trades_by_interval,
     sequence  |-> candle_sequence,
     consumed  |-> consumed_buckets,
     emitted   |-> emitted]

\* Lines 306-378: the locked section of the pass for one symbol.
FinalizeSymbol(symbol, boundary_now, agg) ==
    LET start == StartBoundary(agg.finalized[symbol], agg.cst[symbol])
    IN  IF start = None
        THEN agg
        ELSE LET st == FinalizeFrom(start[1], boundary_now,
                           [buckets    |-> agg.buckets[symbol],
                            last_close |-> agg.close[symbol],
                            buffer     |-> agg.buffer[symbol],
                            sequence   |-> agg.sequence,
                            consumed   |-> agg.consumed[symbol],
                            emitted    |-> agg.emitted])
             IN  [buffer    |-> [agg.buffer EXCEPT ![symbol] = st.buffer],
                  cst       |-> [agg.cst EXCEPT
                                   ![symbol] = ResetCandleStart(@, boundary_now)],
                  finalized |-> [agg.finalized EXCEPT
                                   ![symbol] = FinalizedBoundary(boundary_now)],
                  close     |-> [agg.close EXCEPT ![symbol] = st.last_close],
                  buckets   |-> [agg.buckets EXCEPT ![symbol] = st.buckets],
                  sequence  |-> st.sequence,
                  consumed  |-> [agg.consumed EXCEPT ![symbol] = st.consumed],
                  emitted   |-> st.emitted]

\* Line 301: for symbol in self.coins, from index i on.
RECURSIVE FinalizeAll(_, _, _)
FinalizeAll(i, boundary_now, agg) ==
    IF i > Len(coins) THEN agg
    ELSE FinalizeAll(i + 1, boundary_now, FinalizeSymbol(coins[i], boundary_now, agg))

\* current_boundary of a pass that reads the clock at current_time_ms (line 298).
CurrentBoundary(current_time_ms) ==
    (current_time_ms \div candle_interval_ms) * candle_interval_ms

Min(a, b) == IF a < b THEN a ELSE b

Max(a, b) == IF a > b THEN a ELSE b

\* Mutant: the chunk size is not capped by max_coins_per_connection.
SymbolsPerConnectionUncapped(symbols, per_connection, limit) ==
    Max(1, Len(symbols) \div limit)

\* Line 72: min(self.max_coins_per_connection,
\*               max(1, len(self.coins) // self.max_connections)).
SymbolsPerConnection(symbols, per_connection, limit) ==
    Min(per_connection, Max(1, Len(symbols) \div limit))

\* _distribute_symbols_to_connections for self.coins = symbols,
\* self.max_coins_per_connection = per_connection and
\* self.max_connections = limit: the chunks self.coins[i:i + size] for
\* i in range(0, len(self.coins), size).
distribute_symbols_to_connections(symbols, per_connection, limit) ==
    IF symbols = <<>>
    THEN <<>>
    ELSE LET size == SymbolsPerConnection(symbols, per_connection, limit)
         IN  [k \in 1..((Len(symbols) + size - 1) \div size) |->
                 SubSeq(symbols, (k - 1) * size + 1, Min(k * size, Len(symbols)))]

\* _calculate_needed_connections (lines 81-89).
calculate_needed_connections(symbols, per_connection, limit) ==
    IF symbols = <<>>
    THEN 0
    ELSE Min((Len(symbols) + per_connection - 1) \div per_connection, limit)

\* The chunk size and the chunks of the symbols of the model under the
\* configured limits.
symbols_per_connection ==
    SymbolsPerConnection(coins, MAX_COINS_PER_CONNECTION, MAX_CONNECTIONS)

connections ==
    distribute_symbols_to_connections(coins, MAX_COINS_PER_CONNECTION,
                                      MAX_CONNECTIONS)

\* The connection tasks start_connection creates, one for each chunk.
Connections == 1..Len(connections)

\* The timer task among the tasks of self._connection_tasks; a connection
\* task is named by its index.
TimerTask == 0

\* main() lines 57-79: the aggregator is constructed on filtered_coins,
\* whatever its length, the task of start_connection is created and the
\* driver loop is entered.
MainStart ==
    /\ main_pc = "start"
    /\ main_pc' = "loop"
    /\ UNCHANGED <<now, running, aggVars, dedupVars, timerVars, driverVars,
                   postVars, connVars, filtered_coins, max_connections,
                   max_coins_per_connection, connection_tasks, stopVars,
                   twinVars, logVars>>

\* start_connection: sets the running flag and creates the timer task and
\* the task of every chunk of the distribution.
StartConnection ==
    /\ main_pc = "loop"
    /\ ~running
    /\ timer_pc = "idle"
    /\ running' = TRUE
    /\ timer_pc' = "align"
    /\ connection_tasks' =
           distribute_symbols_to_connections(filtered_coins,
                                             max_coins_per_connection,
                                             max_connections)
    /\ conn_pc' = [c \in 1..Len(connection_tasks') |-> "connecting"]
    /\ UNCHANGED <<now, aggVars, dedupVars, wake_at, pass_errors, pass_raised,
                   driverVars, postVars,
                   consecutive_failures, reconnect_delay, reconnect_count,
                   failures_since_connect, timed_out, filtered_coins,
                   max_connections, max_coins_per_connection, main_pc,
                   stopVars, twinVars, logVars>>

\* log_new_candle (config.py lines 368-375) for every candle a pass
\* appends (line 365): the candles of after that are not in before are put
\* on the queue in the order of their appends.  The queue has no maximum
\* size, so put_nowait does not raise queue.Full.  The coin of an entry is
\* left out.
PutCandles(queue, before, after) ==
    queue \o SubSeq(after, Len(before) + 1, Len(after))

\* Lines 288-291: sleep until the next boundary.
TimerAlign ==
    /\ timer_pc = "align"
    /\ TimerTask \notin cancel_pending
    /\ wake_at' = ((now \div candle_interval_ms) + 1) * candle_interval_ms
    /\ timer_pc' = "sleep"
    /\ UNCHANGED <<now, running, aggVars, dedupVars, driverVars, postVars,
                   pass_errors, pass_raised,
                   connVars, startVars, stopVars, twinVars, logVars>>

\* Lines 295-381: the sleep is over; one pass over every symbol at the
\* current boundary, then asyncio.sleep(10.0).  No coroutine runs in
\* between: no lock is held across an await, so no acquisition suspends.
TimerPass ==
    /\ timer_pc = "sleep"
    /\ running
    /\ now >= wake_at
    /\ LET boundary_now == CurrentBoundary(now)
           agg          == FinalizeAll(1, boundary_now, AggState)
       IN  /\ candles_buffer' = agg.buffer
           /\ candle_start_time' = agg.cst
           /\ last_finalized_boundary' = agg.finalized
           /\ last_close_price' = agg.close
           /\ trades_by_interval' = agg.buckets
           /\ candle_sequence' = agg.sequence
           /\ consumed_buckets' = agg.consumed
           /\ emitted' = agg.emitted
           /\ candle_log_queue' = PutCandles(candle_log_queue, emitted, agg.emitted)
    /\ wake_at' = now + TIMER_SLEEP_MS
    /\ pass_raised' = FALSE
    /\ UNCHANGED <<now, running, dedupVars, timer_pc, pass_errors, driverVars,
                   postVars,
                   connVars, startVars, stopVars, twinVars, written>>

\* Line 301 for the coins from index i to index last.
RECURSIVE FinalizeRange(_, _, _, _)
FinalizeRange(i, last, boundary_now, agg) ==
    IF i > last THEN agg
    ELSE FinalizeRange(i + 1, last, boundary_now,
                       FinalizeSymbol(coins[i], boundary_now, agg))

\* Lines 306-368 for a symbol whose pass raises in the iteration of the
\* boundary raised_at, or after the last one: the boundaries before
\* raised_at are done, lines 371-378 are not reached.
FinalizeInterrupted(symbol, start, raised_at, agg) ==
    LET st == FinalizeFrom(start, raised_at,
                  [buckets    |-> agg.buckets[symbol],
                   last_close |-> agg.close[symbol],
                   buffer     |-> agg.buffer[symbol],
                   sequence   |-> agg.sequence,
                   consumed   |-> agg.consumed[symbol],
                   emitted    |-> agg.emitted])
    IN  [agg EXCEPT !.buffer[symbol]   = st.buffer,
                    !.close[symbol]    = st.last_close,
                    !.buckets[symbol]  = st.buckets,
                    !.sequence         = st.sequence,
                    !.consumed[symbol] = st.consumed,
                    !.emitted          = st.emitted]

\* Mutant: the handler of the timer catches a KeyError only.
CaughtKeyErrorOnly(error) == error = "KeyError"

\* Line 383: except Exception catches whatever a pass raises.
CaughtByTimer(error) == error \in PassErrors

\* Lines 295-387: a pass raises error while it handles the coin at index i,
\* in the iteration of the boundary raised_at; the coins before it are
\* done.  The handler sleeps 10 s and the loop goes on.
TimerPassRaises(i, raised_at, error) ==
    /\ timer_pc = "sleep"
    /\ running
    /\ now >= wake_at
    /\ LET boundary_now == CurrentBoundary(now)
           before       == FinalizeRange(1, i - 1, boundary_now, AggState)
           start        == StartBoundary(before.finalized[coins[i]],
                                         before.cst[coins[i]])
       IN  /\ start # None
           /\ start[1] < boundary_now
           /\ raised_at \in start[1]..boundary_now
           /\ (raised_at - start[1]) % candle_interval_ms = 0
           /\ LET agg == FinalizeInterrupted(coins[i], start[1], raised_at, before)
              IN  /\ candles_buffer' = agg.buffer
                  /\ candle_start_time' = agg.cst
                  /\ last_finalized_boundary' = agg.finalized
                  /\ last_close_price' = agg.close
                  /\ trades_by_interval' = agg.buckets
                  /\ candle_sequence' = agg.sequence
                  /\ consumed_buckets' = agg.consumed
                  /\ emitted' = agg.emitted
                  /\ candle_log_queue' =
                         PutCandles(candle_log_queue, emitted, agg.emitted)
    /\ IF CaughtByTimer(error)
       THEN timer_pc' = "sleep" /\ wake_at' = now + TIMER_SLEEP_MS
       ELSE timer_pc' = "done" /\ wake_at' = wake_at
    /\ pass_errors' = pass_errors + 1
    /\ pass_raised' = TRUE
    /\ UNCHANGED <<now, running, dedupVars, driverVars, postVars, connVars,
                   startVars, stopVars, twinVars, written>>

\* The wall clock moves on by one of steps, up to limit.
AdvanceClock(steps, limit) ==
    /\ \E step \in steps :
          /\ now + step <= limit
          /\ now' = now + step
    /\ UNCHANGED <<running, aggVars, dedupVars, timerVars, driverVars, postVars,
                   connVars, startVars, stopVars, twinVars, logVars>>

(***************************************************************************)
(* get_signal_data and generate_signal                                     *)
(*                                                                         *)
(* The arithmetic of the four conditions (rolling percentiles, Wilder      *)
(* average) is not modelled: their outcome, passed, is an input of the     *)
(* evaluation.  A validation_error is modelled by its fixed text; the      *)
(* counts and indices formatted after it are left out.                     *)
(***************************************************************************)
\* The checks of lines 332 and 335 of generate_signal on one candle.
InvalidCandle(candle) ==
    \/ candle.high < candle.low
    \/ candle.close < candle.low
    \/ candle.close > candle.high

\* generate_signal(candles): the signal and the fields of detailed_info the
\* driver reads.
generate_signal(candles, passed) ==
    IF Len(candles) < MIN_CANDLES
    THEN [signal |-> FALSE, candle_count |-> Len(candles),
          validation_error |-> "Insufficient data"]
    ELSE IF candles[Len(candles)].volume = 0
    THEN [signal |-> FALSE, candle_count |-> Len(candles),
          validation_error |-> "No trades in last candle (forward-fill)"]
    ELSE IF \E i \in 1..Len(candles) : InvalidCandle(candles[i])
    THEN [signal |-> FALSE, candle_count |-> Len(candles),
          validation_error |-> "Invalid candle"]
    ELSE [signal |-> passed.low_vol /\ passed.narrow_rng /\ passed.high_mma
                         /\ passed.growth_filter,
          candle_count |-> Len(candles),
          validation_error |-> ""]

\* TradeWebSocket.get_signal_data for a coin of self.coins, whose window is
\* candles: the signal, signal_data['candle_count'] and
\* signal_data['criteria']['validation_error'].
get_signal_data(candles, passed) ==
    IF Len(candles) < WARMUP_INTERVALS
    THEN [signal |-> FALSE, candle_count |-> Len(candles),
          validation_error |-> "Warmup:"]
    ELSE generate_signal(candles, passed)

\* criteria.get('validation_error', '').startswith('Warmup:')
IsWarmupError(validation_error) == validation_error = "Warmup:"

(***************************************************************************)
(* main(): the driver loop, log_signal and send_signals_loop               *)
(***************************************************************************)
\* Mutant: a row is written whenever the warm-up is complete.
LogsRowAlways(validation_error, complete) == complete

\* Mutant: log_signal does not look at the warm-up flag.
LogsRowUngated(validation_error, complete) == validation_error = ""

\* log_signal: whether the call reaches file_handler.emit.
LogsRow(validation_error, complete) ==
    complete /\ validation_error = ""

\* Mutant: a true signal is sent in every iteration.
ShouldSendAlways(prev_signal, signal) == signal

\* main.py line 132.
ShouldSend(prev_signal, signal) ==
    (prev_signal = None \/ prev_signal # Some(signal)) /\ signal

\* The (strategy name, server) pairs in the order send_signals_loop visits
\* them: strategies outside, servers inside.
Pairs ==
    [p \in 1..(Len(DEFAULT_STRATEGY_NAMES) * Len(DEFAULT_SERVER_URLS)) |->
        <<DEFAULT_STRATEGY_NAMES[((p - 1) \div Len(DEFAULT_SERVER_URLS)) + 1],
          DEFAULT_SERVER_URLS[((p - 1) % Len(DEFAULT_SERVER_URLS)) + 1]>>]

\* Mutant: a coin is excluded after the time alone, whatever its candles.
ShouldExcludeIdle(candle_count, time_since_start) ==
    time_since_start > EXCLUDE_AFTER_MS

\* main.py lines 103-104: no candle and more than 600 s since first seen.
ShouldExclude(candle_count, time_since_start) ==
    candle_count = 0 /\ time_since_start > EXCLUDE_AFTER_MS

\* Lines 89-117 for the coins from index i on, when the clock reads
\* current_time and the bar store holds windows;
\* acc = [excluded, first_seen, signals, warmup_active].  The field window
\* of an entry is history: the candles the entry was computed from.
RECURSIVE CollectFrom(_, _, _, _, _)
CollectFrom(i, current_time, windows, passed, acc) ==
    IF i > Len(coins) THEN acc
    ELSE LET coin == coins[i]
             first_seen ==
                 IF coin \in DOMAIN acc.first_seen
                 THEN acc.first_seen
                 ELSE acc.first_seen @@ (coin :> current_time)
             info == get_signal_data(windows[coin], passed[coin])
         IN  IF coin \in acc.excluded
             THEN CollectFrom(i + 1, current_time, windows, passed, acc)
             ELSE IF ShouldExclude(info.candle_count,
                                   current_time - first_seen[coin])
             THEN CollectFrom(i + 1, current_time, windows, passed,
                      [acc EXCEPT !.first_seen = first_seen,
                                  !.excluded = @ \cup {coin}])
             ELSE CollectFrom(i + 1, current_time, windows, passed,
                      [acc EXCEPT
                         !.first_seen = first_seen,
                         !.signals = Append(@,
                             [coin |-> coin, signal |-> info.signal,
                              candle_count |-> info.candle_count,
                              validation_error |-> info.validation_error,
                              window |-> windows[coin]]),
                         !.warmup_active =
                             @ \/ IsWarmupError(info.validation_error)])

\* Lines 83-121: one iteration collects the signal data of every coin that
\* is not excluded and updates warmup_complete.  windows is the content of
\* self.candles_buffer at this moment, passed the outcome of the conditions
\* on each window.
DriverCollect(windows, passed) ==
    /\ driver_pc = "collect"
    /\ LET acc == CollectFrom(1, now, windows, passed,
                      [excluded |-> excluded_coins,
                       first_seen |-> coin_first_seen,
                       signals |-> <<>>,
                       warmup_active |-> FALSE])
       IN  /\ excluded_coins' = acc.excluded
           /\ coin_first_seen' = acc.first_seen
           /\ coin_signals' = acc.signals
           /\ warmup_complete' = (warmup_complete \/ ~acc.warmup_active)
    /\ store_count' = [c \in Symbols |-> Len(windows[c])]
    /\ signal_index' = 1
    /\ driver_pc' = "process"
    /\ iterations' = iterations + 1
    /\ UNCHANGED <<now, running, aggVars, dedupVars, timerVars, connVars, postVars,
                   startVars, stopVars, twinVars, logVars, coin_last_signal, outputs,
                   signal_rows>>

\* Lines 124-136 for one entry of coin_signals, up to the first await:
\* log_signal, then either the entry is done or send_signals_loop begins.
DriverProcess ==
    /\ driver_pc = "process"
    /\ signal_index <= Len(coin_signals)
    /\ LET entry == coin_signals[signal_index]
           prev_signal == coin_last_signal[entry.coin]
       IN  /\ signal_rows' =
                  IF LogsRow(entry.validation_error, warmup_complete)
                  THEN [signal_rows EXCEPT ![entry.coin] = @ + 1]
                  ELSE signal_rows
           /\ outputs' = [outputs EXCEPT ![entry.coin] = Append(@, entry.signal)]
           /\ IF ShouldSend(prev_signal, entry.signal)
              THEN /\ driver_pc' = "attempt"
                   /\ post_index' = 1
                   /\ attempt' = 0
                   /\ UNCHANGED <<coin_last_signal, signal_index>>
              ELSE /\ coin_last_signal' =
                          [coin_last_signal EXCEPT ![entry.coin] = Some(entry.signal)]
                   /\ signal_index' = signal_index + 1
                   /\ UNCHANGED <<driver_pc, post_index, attempt>>
    /\ post_statuses' = <<>>
    /\ UNCHANGED <<now, running, aggVars, dedupVars, timerVars, connVars,
                   startVars, stopVars, twinVars, logVars, excluded_coins,
                   coin_first_seen, warmup_complete, coin_signals, iterations,
                   store_count, sleep_ms, posted>>

\* Lines 138-145: every entry is processed; the loop sleeps 0.3 s and
\* starts over.  coin_signals is not read again before line 87 replaces it,
\* so it is emptied here already.
DriverEndIteration ==
    /\ driver_pc = "process"
    /\ signal_index > Len(coin_signals)
    /\ driver_pc' = "collect"
    /\ coin_signals' = <<>>
    /\ signal_index' = 1
    /\ post_statuses' = <<>>
    /\ store_count' = [c \in Symbols |-> 0]
    /\ UNCHANGED <<now, running, aggVars, dedupVars, timerVars, connVars,
                   startVars, stopVars, twinVars, logVars,
                   excluded_coins, coin_first_seen, coin_last_signal,
                   warmup_complete, iterations, outputs, signal_rows,
                   post_index, attempt, sleep_ms, posted>>

\* _send_json_strategy and _handle_response: the attempt raises when the
\* request gets no answer; an answer of any status is handled silently.
Raises(status) == status = 0

\* Mutant: a failed attempt is always followed by another one.
RetryAlways(n) == TRUE

\* send_strategy_with_retry line 23: attempt < max_retries - 1.
RetryAllowed(n) == n < max_retries - 1

\* One request of send_strategy_with_retry for the pair at post_index,
\* answered by status.  After the last request of the last pair the driver
\* is back in lines 134-136.
PostAttempt(status) ==
    /\ driver_pc = "attempt"
    /\ LET entry == coin_signals[signal_index]
       IN  /\ posted' = IF attempt = 0
                        THEN [posted EXCEPT ![entry.coin][post_index] = @ + 1]
                        ELSE posted
           /\ post_statuses' = IF attempt = 0
                               THEN <<status>>
                               ELSE Append(post_statuses, status)
           /\ IF Raises(status) /\ RetryAllowed(attempt)
              THEN /\ driver_pc' = "retry_sleep"
                   /\ sleep_ms' = RETRY_SLEEP_MS
                   /\ UNCHANGED <<post_index, attempt, signal_index,
                                  coin_last_signal>>
              ELSE IF post_index < Len(Pairs)
              THEN /\ post_index' = post_index + 1
                   /\ attempt' = 0
                   /\ UNCHANGED <<driver_pc, sleep_ms, signal_index,
                                  coin_last_signal>>
              ELSE /\ driver_pc' = "process"
                   /\ coin_last_signal' =
                          [coin_last_signal EXCEPT ![entry.coin] = Some(entry.signal)]
                   /\ signal_index' = signal_index + 1
                   /\ post_index' = 1
                   /\ attempt' = 0
                   /\ UNCHANGED sleep_ms
    /\ UNCHANGED <<now, running, aggVars, dedupVars, timerVars, connVars,
                   startVars, stopVars, twinVars, logVars, excluded_coins,
                   coin_first_seen, warmup_complete, coin_signals, iterations,
                   outputs, signal_rows, store_count>>

\* send_strategy_with_retry line 25: the pause is over, the next attempt.
PostRetry ==
    /\ driver_pc = "retry_sleep"
    /\ driver_pc' = "attempt"
    /\ attempt' = attempt + 1
    /\ sleep_ms' = 0
    /\ UNCHANGED <<now, running, aggVars, dedupVars, timerVars, connVars,
                   startVars, stopVars, twinVars, logVars, excluded_coins,
                   coin_first_seen, coin_last_signal, warmup_complete,
                   coin_signals, signal_index, iterations, outputs, signal_rows,
                   store_count, post_index, posted, post_statuses>>

(***************************************************************************)
(* _start_single_connection                                                *)
(***************************************************************************)
\* Lines 231-238: the delay, in seconds, before the next attempt to connect.
ReconnectDelay(failures) ==
    IF failures = 1 THEN 5
    ELSE IF failures <= 3 THEN 10
    ELSE IF failures <= 5 THEN 30
    ELSE 60

\* The variables of the other tasks.
otherVars == <<now, running, aggVars, dedupVars, timerVars, driverVars, postVars,
               startVars, stopVars, twinVars, logVars>>

\* Lines 126-145: websockets.connect succeeds; the counters are reset and
\* the task reads from the new socket.
ConnectOk(c) ==
    /\ running
    /\ conn_pc[c] = "connecting"
    /\ conn_pc' = [conn_pc EXCEPT ![c] = "receiving"]
    /\ reconnect_count' = [reconnect_count EXCEPT ![c] = 0]
    /\ reconnect_delay' = [reconnect_delay EXCEPT ![c] = 1]
    /\ consecutive_failures' = [consecutive_failures EXCEPT ![c] = 0]
    /\ failures_since_connect' = [failures_since_connect EXCEPT ![c] = 0]
    /\ timed_out' = [timed_out EXCEPT ![c] = FALSE]
    /\ UNCHANGED otherVars

\* Lines 205-243: websockets.connect raises (handshake, timeout, OS error or
\* any other exception: every handler counts the failure), then the task
\* sets the delay and sleeps.
ConnectFail(c) ==
    /\ running
    /\ conn_pc[c] = "connecting"
    /\ consecutive_failures[c] < MaxFailures
    /\ consecutive_failures' = [consecutive_failures EXCEPT ![c] = @ + 1]
    /\ reconnect_count' = [reconnect_count EXCEPT ![c] = @ + 1]
    /\ reconnect_delay' =
           [reconnect_delay EXCEPT ![c] = ReconnectDelay(consecutive_failures[c] + 1)]
    /\ conn_pc' = [conn_pc EXCEPT ![c] = "backoff"]
    /\ failures_since_connect' = [failures_since_connect EXCEPT ![c] = @ + 1]
    /\ UNCHANGED <<otherVars, timed_out>>

\* Lines 192-197 and 229-243: recv raises ConnectionClosed on the
\* established connection; the inner loop is left by break, no handler of
\* the outer try runs, and the task sets the delay and sleeps.
ConnectionClosed(c) ==
    /\ running
    /\ conn_pc[c] = "receiving"
    /\ reconnect_delay' =
           [reconnect_delay EXCEPT ![c] = ReconnectDelay(consecutive_failures[c])]
    /\ conn_pc' = [conn_pc EXCEPT ![c] = "backoff"]
    /\ failures_since_connect' = [failures_since_connect EXCEPT ![c] = @ + 1]
    /\ UNCHANGED <<otherVars, consecutive_failures, reconnect_count, timed_out>>

\* Lines 151 and 201-203: no message for READ_TIMEOUT_S seconds; wait_for
\* raises asyncio.TimeoutError, which the handler of Exception of the inner
\* try catches: the task sleeps 1 s.
ReadTimeout(c) ==
    /\ running
    /\ conn_pc[c] = "receiving"
    /\ conn_pc' = [conn_pc EXCEPT ![c] = "pause"]
    /\ timed_out' = [timed_out EXCEPT ![c] = TRUE]
    /\ UNCHANGED <<otherVars, consecutive_failures, reconnect_delay,
                   reconnect_count, failures_since_connect>>

\* Lines 203 and 147-151: the sleep of 1 s is over; the inner loop goes on
\* and calls recv on the same socket.
ReadResume(c) ==
    /\ running
    /\ conn_pc[c] = "pause"
    /\ conn_pc' = [conn_pc EXCEPT ![c] = "receiving"]
    /\ UNCHANGED <<otherVars, consecutive_failures, reconnect_delay,
                   reconnect_count, failures_since_connect, timed_out>>

\* Lines 243 and 123: the sleep is over and the loop connects again.
BackoffDone(c) ==
    /\ running
    /\ conn_pc[c] = "backoff"
    /\ conn_pc' = [conn_pc EXCEPT ![c] = "connecting"]
    /\ UNCHANGED <<otherVars, consecutive_failures, reconnect_delay,
                   reconnect_count, failures_since_connect, timed_out>>

(***************************************************************************)
(* Two TradeWebSocket objects                                              *)
(*                                                                         *)
(* The state of one object as a record, and the two coroutines above as    *)
(* functions of it.                                                        *)
(***************************************************************************)
Instances == 1..2

\* The fields __init__ sets (lines 30-55).
NewInstance ==
    [buffer     |-> [c \in Symbols |-> <<>>],
     cst        |-> [c \in Symbols |-> None],
     finalized  |-> [c \in Symbols |-> 0],
     close      |-> [c \in Symbols |-> None],
     buckets    |-> [c \in Symbols |-> <<>>],
     sequence   |-> 0,
     consumed   |-> [c \in Symbols |-> <<>>],
     emitted    |-> <<>>,
     signatures |-> [c \in Symbols |-> {}]]

\* _process_trade_to_candle(symbol, trade_data) on the object inst.
process_trade_to_candle(inst, symbol, trade_data) ==
    LET signature == Signature(trade_data)
        added     == MarkSeen(inst.signatures[symbol], signature)
    IN  IF signature \in inst.signatures[symbol]
        THEN inst
        ELSE [inst EXCEPT
                !.signatures[symbol] = CleanupSignatures(added, trade_data),
                !.buckets[symbol]    = AppendTrade(@, trade_data),
                !.cst[symbol]        =
                    NextCandleStart(@, IntervalStart(trade_data.timestamp))]

\* Mutant: the sequence counter is shared by the objects.
SequenceShared(own, other) == other

\* Line 38: _candle_sequence is an attribute of the object; the counter of
\* another object is not read.
SequenceOf(own, other) == own

\* One pass of the timer of the object inst (lines 297-378) that reads the
\* clock at current_time_ms, its counter being sequence.
candle_finalization_pass(inst, current_time_ms, sequence) ==
    LET agg == FinalizeAll(1, CurrentBoundary(current_time_ms),
                   [buffer    |-> inst.buffer,
                    cst       |-> inst.cst,
                    finalized |-> inst.finalized,
                    close     |-> inst.close,
                    buckets   |-> inst.buckets,
                    sequence  |-> sequence,
                    consumed  |-> inst.consumed,
                    emitted   |-> inst.emitted])
    IN  [buffer     |-> agg.buffer,
         cst        |-> agg.cst,
         finalized  |-> agg.finalized,
         close      |-> agg.close,
         buckets    |-> agg.buckets,
         sequence   |-> agg.sequence,
         consumed   |-> agg.consumed,
         emitted    |-> agg.emitted,
         signatures |-> inst.signatures]

\* The same trade message is handed to both objects.
TwinTrade(symbol, timestamp_ms, price, size) ==
    LET trade_data == [timestamp |-> timestamp_ms, price |-> price, size |-> size]
    IN  /\ running
        /\ instances' = [k \in Instances |->
                             process_trade_to_candle(instances[k], symbol, trade_data)]
        /\ UNCHANGED <<now, running, aggVars, dedupVars, timerVars, driverVars,
                       postVars, connVars, startVars, stopVars, logVars>>

\* The timers of both objects run a pass at the same reading of the clock.
TwinPass ==
    /\ timer_pc = "sleep"
    /\ running
    /\ now >= wake_at
    /\ LET first  == candle_finalization_pass(instances[1], now,
                                              instances[1].sequence)
           second == candle_finalization_pass(instances[2], now,
                         SequenceOf(instances[2].sequence, first.sequence))
       IN  instances' = [k \in Instances |-> IF k = 1 THEN first ELSE second]
    /\ wake_at' = now + TIMER_SLEEP_MS
    /\ UNCHANGED <<now, running, aggVars, dedupVars, timer_pc, pass_errors,
                   pass_raised, driverVars, postVars, connVars, startVars,
                   stopVars, logVars>>

(***************************************************************************)
(* stop()                                                                  *)
(***************************************************************************)
\* A task is done: it returned, or it was ended by CancelledError.
Done(pc) == pc \in {"returned", "cancelled"}

\* Lines 483-485: the tasks of self._connection_tasks that are not done.
TasksToCancel ==
    {task \in {TimerTask} : timer_pc # "idle" /\ ~Done(timer_pc)}
        \cup {c \in DOMAIN conn_pc : ~Done(conn_pc[c])}

\* Lines 480-485 of stop(): the flag is cleared and every task that is not
\* done is cancelled.  stop() then waits in gather for the tasks.
Stop ==
    /\ running
    /\ running' = FALSE
    /\ cancel_pending' = TasksToCancel
    /\ UNCHANGED <<now, aggVars, dedupVars, timerVars, driverVars, postVars,
                   connVars, startVars, twinVars, logVars>>

\* Mutant: a task that is resumed with CancelledError stays where it is.
AfterCancelIgnored(pc) == pc

\* A task suspended at pc is resumed with CancelledError.  In the read of
\* line 151 the handler of lines 188-190 leaves the message loop, and the
\* task returns as the flag is cleared (lines 229 and 123).  Elsewhere (the
\* connect of line 126, the sleeps of lines 200, 203 and 243, the sleeps of
\* the timer) no handler catches it, as it is no Exception: the task ends.
AfterCancel(pc) == IF pc = "receiving" THEN "returned" ELSE "cancelled"

\* The timer task is resumed after stop() cancelled it.
TimerCancelled ==
    /\ TimerTask \in cancel_pending
    /\ timer_pc' = AfterCancel(timer_pc)
    /\ cancel_pending' = cancel_pending \ {TimerTask}
    /\ UNCHANGED <<now, running, aggVars, dedupVars, wake_at, pass_errors,
                   pass_raised, driverVars, postVars, connVars, startVars,
                   twinVars, logVars>>

\* A connection task is resumed after stop() cancelled it.
ConnCancelled(c) ==
    /\ c \in cancel_pending
    /\ conn_pc' = [conn_pc EXCEPT ![c] = AfterCancel(@)]
    /\ cancel_pending' = cancel_pending \ {c}
    /\ UNCHANGED <<now, running, aggVars, dedupVars, timerVars, driverVars,
                   postVars, startVars, twinVars, logVars, consecutive_failures,
                   reconnect_delay, reconnect_count, failures_since_connect,
                   timed_out>>

(***************************************************************************)
(* _candle_log_worker (config.py)                                          *)
(***************************************************************************)
\* Mutant: the batch is sorted by the timestamps of its candles.
SortKeyTimestamp(candle) == candle.timestamp

\* Line 331: key=lambda x: x[1].get('_sequence', 0).
SortKey(candle) == candle.sequence

\* sorted(batch, key=...) of line 331: a stable sort.  The place of the
\* candle at index k of the batch is the number of candles of a smaller
\* key, and of the candles of its key up to itself.
RankInBatch(batch, k) ==
    Cardinality({m \in 1..Len(batch) :
                    \/ SortKey(batch[m]) < SortKey(batch[k])
                    \/ SortKey(batch[m]) = SortKey(batch[k]) /\ m <= k})

SortBatch(batch) ==
    [p \in 1..Len(batch) |->
        batch[CHOOSE k \in 1..Len(batch) : RankInBatch(batch, k) = p]]

\* Lines 320-349: one cycle of the worker, which main() starts at line 58:
\* the queue is emptied into a batch, the batch is sorted and every candle of
\* it is written; then the worker sleeps 0.5 s.  There is no await between
\* the first get_nowait and the last emit.  A cycle that finds the queue
\* empty writes nothing.
CandleLogWorker ==
    /\ main_pc = "loop"
    /\ candle_log_queue # <<>>
    /\ written' = written \o SortBatch(candle_log_queue)
    /\ candle_log_queue' = <<>>
    /\ UNCHANGED <<now, running, aggVars, dedupVars, timerVars, driverVars,
                   postVars, connVars, startVars, stopVars, twinVars>>

(***************************************************************************)
(* Specifications                                                          *)
(***************************************************************************)
\* The state after TradeWebSocket.__init__ (lines 25-55) and lines 67-79 of
\* main(), but for the symbols and the limits of the distribution.
InitRun ==
    /\ now = 0
    /\ running = FALSE
    /\ candles_buffer = [c \in Symbols |-> <<>>]
    /\ candle_start_time = [c \in Symbols |-> None]
    /\ last_finalized_boundary = [c \in Symbols |-> 0]
    /\ last_close_price = [c \in Symbols |-> None]
    /\ trades_by_interval = [c \in Symbols |-> <<>>]
    /\ seen_trade_signatures = [c \in Symbols |-> {}]
    /\ candle_sequence = 0
    /\ timer_pc = "idle"
    /\ wake_at = 0
    /\ insert_count = [c \in Symbols |-> <<>>]
    /\ evict_count = [c \in Symbols |-> <<>>]
    /\ accepted = 0
    /\ consumed_buckets = [c \in Symbols |-> <<>>]
    /\ emitted = <<>>
    /\ driver_pc = "collect"
    /\ excluded_coins = {}
    /\ coin_first_seen = <<>>
    /\ coin_last_signal = [c \in Symbols |-> None]
    /\ warmup_complete = FALSE
    /\ coin_signals = <<>>
    /\ signal_index = 1
    /\ post_index = 1
    /\ attempt = 0
    /\ sleep_ms = 0
    /\ iterations = 0
    /\ outputs = [c \in Symbols |-> <<>>]
    /\ signal_rows = [c \in Symbols |-> 0]
    /\ posted = [c \in Symbols |-> [p \in 1..Len(Pairs) |-> 0]]
    /\ post_statuses = <<>>
    /\ conn_pc = [c \in Connections |-> "idle"]
    /\ consecutive_failures = [c \in Connections |-> 0]
    /\ reconnect_delay = [c \in Connections |-> 1]
    /\ reconnect_count = [c \in Connections |-> 0]
    /\ failures_since_connect = [c \in Connections |-> 0]
    /\ timed_out = [c \in Connections |-> FALSE]
    /\ connection_tasks = <<>>
    /\ store_count = [c \in Symbols |-> 0]
    /\ cancel_pending = {}
    /\ pass_errors = 0
    /\ pass_raised = FALSE
    /\ instances = [k \in Instances |-> NewInstance]
    /\ candle_log_queue = <<>>
    /\ written = <<>>

\* The aggregator is constructed on the symbols of the model with the
\* configured limits, and main() is in its loop.
Init ==
    /\ InitRun
    /\ filtered_coins = coins
    /\ max_connections = MAX_CONNECTIONS
    /\ max_coins_per_connection = MAX_COINS_PER_CONNECTION
    /\ main_pc = "loop"

Trade ==
    \E symbol \in Symbols, timestamp_ms \in TickTimes, quote \in TickQuotes :
        /\ accepted < MaxMessages
        /\ ReceiveTrade(symbol, timestamp_ms, quote[1], quote[2])

Clock == AdvanceClock(ClockSteps, MaxIntervals * candle_interval_ms)

Next ==
    \/ StartConnection
    \/ TimerAlign
    \/ TimerPass
    \/ Trade
    \/ Clock

Spec == Init /\ [][Next]_vars

\* SpecDedup: one symbol receives a trade of the interval [10000, 20000) and
\* then a burst of distinct trades stamped 75 s later by the exchange, one
\* millisecond apart; the first trade may be delivered again at any point.
BurstFirst == <<15000, 100, 2>>

BurstTrade(n) == <<90000 + n, 100, 1>>

BurstFeed(n) == IF n = 0 THEN {BurstFirst} ELSE {BurstFirst, BurstTrade(n)}

TradeBurst ==
    \E trade \in BurstFeed(accepted) :
        /\ accepted < DEDUP_SOFT_CAP + BurstExtra
        /\ ReceiveTrade(coins[1], trade[1], trade[2], trade[3])

ClockBurst ==
    AdvanceClock({candle_interval_ms}, BurstIntervals * candle_interval_ms)

NextDedup ==
    \/ StartConnection
    \/ TimerAlign
    \/ TimerPass
    \/ TradeBurst
    \/ ClockBurst

SpecDedup == Init /\ [][NextDedup]_vars

\* SpecInvalidPrice: the stream carries trades whose price is zero or
\* negative.
TradeInvalid ==
    \E symbol \in Symbols, timestamp_ms \in InvalidTickTimes,
       quote \in InvalidTickQuotes :
        /\ accepted < MaxMessages
        /\ ReceiveTrade(symbol, timestamp_ms, quote[1], quote[2])

NextInvalidPrice ==
    \/ StartConnection
    \/ TimerAlign
    \/ TimerPass
    \/ TradeInvalid
    \/ Clock

SpecInvalidPrice == Init /\ [][NextInvalidPrice]_vars

\* SpecLongRun: one trade, then the clock runs for LongRunIntervals intervals.
TradeOnce ==
    /\ accepted < 1
    /\ ReceiveTrade(coins[1], 1000, 100, 2)

ClockLongRun ==
    AdvanceClock({candle_interval_ms}, LongRunIntervals * candle_interval_ms)

NextLongRun ==
    \/ StartConnection
    \/ TimerAlign
    \/ TimerPass
    \/ TradeOnce
    \/ ClockLongRun

SpecLongRun == Init /\ [][NextLongRun]_vars

\* SpecPassError: the aggregation with passes of the timer that raise.
PassRaises ==
    \E i \in 1..Len(coins), error \in PassErrors,
       k \in 0..PassErrorIntervals :
        /\ pass_errors < MaxPassErrors
        /\ TimerPassRaises(i, k * candle_interval_ms, error)

TradePassError ==
    \E symbol \in Symbols, timestamp_ms \in {1000, 15000} :
        /\ accepted < PassErrorMessages
        /\ ReceiveTrade(symbol, timestamp_ms, 100, 2)

ClockPassError ==
    AdvanceClock(ClockSteps, PassErrorIntervals * candle_interval_ms)

NextPassError ==
    \/ StartConnection
    \/ TimerAlign
    \/ TimerPass
    \/ PassRaises
    \/ TradePassError
    \/ ClockPassError

SpecPassError == Init /\ [][NextPassError]_vars

\* SpecDriver: the driver loop, the bar store being its environment: at
\* every read the windows are drawn from EvalWindows.  The windows differ in
\* what the validation of the evaluator reads: length, volume of the last
\* candle, and candles that are invalid.
EvalCandle(i, kind) ==
    LET q == CASE kind = "trade" ->
                      [open |-> 100, high |-> 102, low |-> 99, close |-> 101,
                       volume |-> 5]
               [] kind = "fill" ->
                      [open |-> 101, high |-> 101, low |-> 101, close |-> 101,
                       volume |-> 0]
               [] kind = "high_below_low" ->
                      [open |-> 100, high |-> 99, low |-> 102, close |-> 100,
                       volume |-> 5]
               [] kind = "close_above_high" ->
                      [open |-> 100, high |-> 102, low |-> 99, close |-> 103,
                       volume |-> 5]
               [] kind = "open_above_high" ->
                      [open |-> 103, high |-> 102, low |-> 99, close |-> 101,
                       volume |-> 5]
               [] kind = "open_below_low" ->
                      [open |-> 98, high |-> 102, low |-> 99, close |-> 101,
                       volume |-> 5]
    IN  WithSequence([timestamp |-> (i - 1) * candle_interval_ms,
                      open |-> q.open, high |-> q.high, low |-> q.low,
                      close |-> q.close, volume |-> q.volume], i - 1)

\* A window of n candles built from trades, but for its first and its last.
WindowOf(n, first, last) ==
    [i \in 1..n |->
        EvalCandle(i, IF i = n THEN last ELSE IF i = 1 THEN first ELSE "trade")]

EvalWindows ==
    {<<>>,
     WindowOf(WARMUP_INTERVALS - 1, "trade", "trade"),
     WindowOf(WARMUP_INTERVALS, "trade", "trade"),
     WindowOf(WARMUP_INTERVALS, "trade", "fill"),
     WindowOf(WARMUP_INTERVALS, "trade", "close_above_high"),
     WindowOf(WARMUP_INTERVALS, "high_below_low", "trade")}

\* Outcomes of the four conditions of generate_signal.
PredicateOutcomes ==
    {[low_vol |-> TRUE, narrow_rng |-> TRUE, high_mma |-> TRUE,
      growth_filter |-> TRUE],
     [low_vol |-> TRUE, narrow_rng |-> TRUE, high_mma |-> TRUE,
      growth_filter |-> FALSE]}

Evaluate ==
    \E windows \in [Symbols -> EvalWindows],
       passed \in [Symbols -> PredicateOutcomes] :
        /\ iterations < MaxIterations
        /\ DriverCollect(windows, passed)

Post == \E status \in HttpStatuses : PostAttempt(status)

\* The clock is read in DriverCollect only, and only the time since the
\* first iteration, which sets coin_first_seen, is used: the clock of
\* SpecDriver moves between two iterations.
ClockDriver ==
    /\ driver_pc = "collect"
    /\ iterations \in 1..(MaxIterations - 1)
    /\ AdvanceClock(DriverClockSteps, MaxDriverTicks * (EXCLUDE_AFTER_MS + 1000))

NextDriver ==
    \/ Evaluate
    \/ DriverProcess
    \/ DriverEndIteration
    \/ Post
    \/ PostRetry
    \/ ClockDriver

SpecDriver == Init /\ [][NextDriver]_vars

\* SpecToggle: a longer run of the driver in which the window of the first
\* symbol is complete, its last candle built from trades or forward-filled,
\* and its conditions pass or fail; the window of the second symbol is
\* complete and its conditions never pass.
ToggleWindows ==
    {WindowOf(WARMUP_INTERVALS, "trade", "trade"),
     WindowOf(WARMUP_INTERVALS, "trade", "fill")}

TogglePassed(low_vol) ==
    [c \in Symbols |->
        [low_vol |-> IF c = coins[1] THEN low_vol ELSE FALSE,
         narrow_rng |-> TRUE, high_mma |-> TRUE, growth_filter |-> TRUE]]

EvaluateToggle ==
    \E window \in ToggleWindows, low_vol \in BOOLEAN :
        /\ iterations < ToggleIterations
        /\ DriverCollect([c \in Symbols |->
                             IF c = coins[1]
                             THEN window
                             ELSE WindowOf(WARMUP_INTERVALS, "trade", "trade")],
                         TogglePassed(low_vol))

PostToggle == \E status \in {0, 200} : PostAttempt(status)

NextToggle ==
    \/ EvaluateToggle
    \/ DriverProcess
    \/ DriverEndIteration
    \/ PostToggle
    \/ PostRetry

SpecToggle == Init /\ [][NextToggle]_vars

\* SpecEvaluate: one collection of the driver, which applies get_signal_data
\* to the windows of EvalWindows and to windows with a candle whose open is
\* outside of its range.
EvaluatorWindows ==
    EvalWindows \cup
        {WindowOf(WARMUP_INTERVALS, "open_above_high", "trade"),
         WindowOf(WARMUP_INTERVALS, "trade", "open_below_low")}

EvaluateOnce ==
    \E windows \in [Symbols -> EvaluatorWindows],
       passed \in [Symbols -> PredicateOutcomes] :
        /\ iterations < 1
        /\ DriverCollect(windows, passed)

SpecEvaluate == Init /\ [][EvaluateOnce]_vars

\* SpecExclude: the driver over a bar store whose windows are empty, hold
\* one bar or are complete, with a clock that moves in steps of 300 s.
ExcludeWindows ==
    {<<>>,
     WindowOf(1, "trade", "trade"),
     WindowOf(WARMUP_INTERVALS, "trade", "trade")}

ExcludeClockSteps == {EXCLUDE_AFTER_MS \div 2}

EvaluateExclude ==
    \E windows \in [Symbols -> ExcludeWindows] :
        /\ iterations < ExcludeIterations
        /\ DriverCollect(windows,
               [c \in Symbols |->
                   [low_vol |-> TRUE, narrow_rng |-> TRUE, high_mma |-> TRUE,
                    growth_filter |-> TRUE]])

PostExclude == PostAttempt(200)

ClockExclude ==
    /\ driver_pc = "collect"
    /\ iterations \in 1..(ExcludeIterations - 1)
    /\ AdvanceClock(ExcludeClockSteps, ExcludeTicks * (EXCLUDE_AFTER_MS \div 2))

NextExclude ==
    \/ EvaluateExclude
    \/ DriverProcess
    \/ DriverEndIteration
    \/ PostExclude
    \/ ClockExclude

SpecExclude == Init /\ [][NextExclude]_vars

\* SpecConnection: the connection tasks alone.
Connected == \E c \in Connections : ConnectOk(c)

ConnectFailed == \E c \in Connections : ConnectFail(c)

Disconnected == \E c \in Connections : ConnectionClosed(c)

ReadTimedOut == \E c \in Connections : ReadTimeout(c)

ReadResumed == \E c \in Connections : ReadResume(c)

Reconnect == \E c \in Connections : BackoffDone(c)

NextConnection ==
    \/ StartConnection
    \/ Connected
    \/ ConnectFailed
    \/ Disconnected
    \/ ReadTimedOut
    \/ ReadResumed
    \/ Reconnect

SpecConnection == Init /\ [][NextConnection]_vars

\* SpecReconnect: the connection tasks while the running flag is set.  A
\* sleep of a task ends (asyncio.sleep returns), which is the fairness of
\* BackoffDone and ReadResume; whether a connect succeeds, a connection is
\* closed or a read times out is up to the network.
ConnectFailedReconnect ==
    \E c \in Connections :
        /\ consecutive_failures[c] < ReconnectFailures
        /\ ConnectFail(c)

NextReconnect ==
    \/ StartConnection
    \/ Connected
    \/ ConnectFailedReconnect
    \/ Disconnected
    \/ ReadTimedOut
    \/ ReadResumed
    \/ Reconnect

SpecReconnect ==
    /\ Init
    /\ [][NextReconnect]_vars
    /\ \A c \in Connections :
           WF_vars(BackoffDone(c)) /\ WF_vars(ReadResume(c))

\* SpecReaders: the connection tasks ingest, the timer finalizes and the
\* driver evaluates the windows that self.candles_buffer holds at the moment
\* of its iteration.  The windows stay below WARMUP_INTERVALS bars, so the
\* conditions of generate_signal are not reached.
ReaderTickTimes == {1000, 25000}

NoCondition ==
    [low_vol |-> FALSE, narrow_rng |-> FALSE, high_mma |-> FALSE,
     growth_filter |-> FALSE]

TradeReaders ==
    \E symbol \in Symbols, timestamp_ms \in ReaderTickTimes :
        /\ accepted < ReaderMessages
        /\ ReceiveTrade(symbol, timestamp_ms, 100, 2)

EvaluateStore ==
    /\ iterations < ReaderIterations
    /\ DriverCollect(candles_buffer, [c \in Symbols |-> NoCondition])

ClockReaders ==
    AdvanceClock({candle_interval_ms}, ReaderIntervals * candle_interval_ms)

NextReaders ==
    \/ StartConnection
    \/ TimerAlign
    \/ TimerPass
    \/ TradeReaders
    \/ EvaluateStore
    \/ DriverProcess
    \/ DriverEndIteration
    \/ ClockReaders

SpecReaders == Init /\ [][NextReaders]_vars

\* SpecCandleLog: the timer puts the candles of its passes on the queue of
\* the candle log and the worker runs its cycles in between.  The sleep of
\* the worker ends, which is the fairness of its cycle.
TradeCandleLog ==
    \E symbol \in Symbols, timestamp_ms \in {1000, 15000} :
        /\ accepted < LogMessages
        /\ ReceiveTrade(symbol, timestamp_ms, 100, 2)

ClockCandleLog ==
    AdvanceClock({candle_interval_ms}, LogIntervals * candle_interval_ms)

NextCandleLog ==
    \/ StartConnection
    \/ TimerAlign
    \/ TimerPass
    \/ TradeCandleLog
    \/ ClockCandleLog
    \/ CandleLogWorker

SpecCandleLog ==
    /\ Init
    /\ [][NextCandleLog]_vars
    /\ WF_vars(CandleLogWorker)

\* SpecStartup: main() from its first line, for the symbol lists discovery
\* may return, the empty list among them, and for several limits of the
\* distribution.
SymbolLists == {SubSeq(SymbolNames, 1, n) : n \in 0..MaxSymbols}

InitStartup ==
    /\ InitRun
    /\ filtered_coins \in SymbolLists
    /\ max_connections \in 1..MaxConnectionLimit
    /\ max_coins_per_connection \in 1..MaxPerConnection
    /\ main_pc = "start"

NextStartup ==
    \/ MainStart
    \/ StartConnection

SpecStartup == InitStartup /\ [][NextStartup]_vars

\* SpecTwin: two objects are handed the same trades in the same order,
\* duplicates among them, and run their passes at the same instants.
SignatureCount(inst) ==
    SeqSum([i \in 1..Len(coins) |-> Cardinality(inst.signatures[coins[i]])])

TradeTwin ==
    \E symbol \in Symbols, timestamp_ms \in TickTimes, quote \in TickQuotes :
        /\ SignatureCount(instances[1]) < TwinMessages
        /\ TwinTrade(symbol, timestamp_ms, quote[1], quote[2])

ClockTwin == AdvanceClock(ClockSteps, TwinIntervals * candle_interval_ms)

NextTwin ==
    \/ StartConnection
    \/ TimerAlign
    \/ TwinPass
    \/ TradeTwin
    \/ ClockTwin

SpecTwin == Init /\ [][NextTwin]_vars

\* SpecShutdown: the tasks of the aggregator, and stop() called at any
\* moment after start_connection.  The event loop resumes a cancelled task
\* at its next turn, which is the fairness of the cancellations.
ConnectFailedShutdown ==
    \E c \in Connections :
        /\ consecutive_failures[c] < ShutdownFailures
        /\ ConnectFail(c)

ClockShutdown ==
    AdvanceClock({candle_interval_ms}, ShutdownIntervals * candle_interval_ms)

ConnectionCancelled == \E c \in Connections : ConnCancelled(c)

NextShutdown ==
    \/ StartConnection
    \/ TimerAlign
    \/ TimerPass
    \/ TradeOnce
    \/ ClockShutdown
    \/ Connected
    \/ ConnectFailedShutdown
    \/ Disconnected
    \/ ReadTimedOut
    \/ ReadResumed
    \/ Reconnect
    \/ Stop
    \/ TimerCancelled
    \/ ConnectionCancelled

SpecShutdown ==
    /\ Init
    /\ [][NextShutdown]_vars
    /\ WF_vars(TimerCancelled)
    /\ \A c \in Connections : WF_vars(ConnCancelled(c))

(***************************************************************************)
(* Properties of the bar window                                            *)
(***************************************************************************)
Bars(symbol) == candles_buffer[symbol]

BarIndices(symbol) == 1..Len(candles_buffer[symbol])

\* The signatures of the trades of a symbol that were ever accepted.
AcceptedSignatures(symbol) == DOMAIN insert_count[symbol]

\* C1: successive bars of every symbol's window are exactly one candle
\* interval apart: no gap and no duplicate timestamp, whatever the order of
\* trades and passes and however many intervals a pass covers.
C1_NoGapNoDuplicate ==
    \A symbol \in Symbols : \A i \in BarIndices(symbol) :
        i > 1 => Bars(symbol)[i].timestamp - Bars(symbol)[i - 1].timestamp
                     = candle_interval_ms

\* A window of at least three bars holding a forward-fill bar between two
\* bars built from trades: a pass covered several intervals.
C1_Witness ==
    \E symbol \in Symbols : \E i, j, k \in BarIndices(symbol) :
        /\ i < j /\ j < k
        /\ Bars(symbol)[i].timestamp \in DOMAIN consumed_buckets[symbol]
        /\ Bars(symbol)[j].timestamp \notin DOMAIN consumed_buckets[symbol]
        /\ Bars(symbol)[k].timestamp \in DOMAIN consumed_buckets[symbol]

\* C2: the timestamp of every bar in every window is an exact multiple of
\* the candle interval.
C2_BarsAligned ==
    \A symbol \in Symbols : \A i \in BarIndices(symbol) :
        Bars(symbol)[i].timestamp % candle_interval_ms = 0

\* A bar built from a trade whose own timestamp is not on a boundary.
C2_Witness ==
    \E symbol \in Symbols : \E i \in BarIndices(symbol) :
        \E b \in DOMAIN consumed_buckets[symbol] :
            /\ Bars(symbol)[i].timestamp = b
            /\ \E n \in 1..Len(consumed_buckets[symbol][b]) :
                   consumed_buckets[symbol][b][n].timestamp % candle_interval_ms # 0

Evictions(symbol, sig) ==
    IF sig \in DOMAIN evict_count[symbol] THEN evict_count[symbol][sig] ELSE 0

C4_OneTradePerSignatureInBar ==
    \A symbol \in Symbols : \A b \in DOMAIN consumed_buckets[symbol] :
        \A i, j \in 1..Len(consumed_buckets[symbol][b]) :
            i # j => Signature(consumed_buckets[symbol][b][i])
                         # Signature(consumed_buckets[symbol][b][j])

\* C5: no trade with a price of zero or less is ever in a pending bucket.
C5_NoNonPositivePricePending ==
    \A symbol \in Symbols : \A b \in DOMAIN trades_by_interval[symbol] :
        \A n \in 1..Len(trades_by_interval[symbol][b]) :
            trades_by_interval[symbol][b][n].price > 0

\* C6: once a symbol has a last_finalized_boundary, accepting a trade of an
\* earlier interval changes neither its pending buckets nor its
\* candle_start_time.
C6_LateTradeDropped ==
    [][\A symbol \in Symbols :
          \A sig \in seen_trade_signatures'[symbol] \ seen_trade_signatures[symbol] :
              (/\ last_finalized_boundary[symbol] # 0
               /\ IntervalStart(SignatureTimestamp(sig))
                      < last_finalized_boundary[symbol])
              => /\ trades_by_interval'[symbol] = trades_by_interval[symbol]
                 /\ candle_start_time'[symbol] = candle_start_time[symbol]]_vars

\* C7: no window ever holds more than WINDOW_MAX bars.
C7_WindowCapped ==
    \A symbol \in Symbols : Len(candles_buffer[symbol]) <= WINDOW_MAX

\* C8: the bar built from the bucket of boundary b has timestamp b, the
\* price of the first appended trade as open, of the last appended trade as
\* close, the largest price as high, the smallest as low, and the sum of the
\* sizes as volume.
C8_CandleFromBucket ==
    \A symbol \in Symbols : \A b \in DOMAIN consumed_buckets[symbol] :
        LET trades == consumed_buckets[symbol][b]
            sizes  == [n \in 1..Len(trades) |-> trades[n].size]
        IN  \E i \in BarIndices(symbol) :
                LET bar == Bars(symbol)[i]
                IN  /\ bar.timestamp = b
                    /\ bar.open = trades[1].price
                    /\ bar.close = trades[Len(trades)].price
                    /\ \A n \in 1..Len(trades) :
                           bar.low <= trades[n].price /\ trades[n].price <= bar.high
                    /\ \E n \in 1..Len(trades) : trades[n].price = bar.high
                    /\ \E n \in 1..Len(trades) : trades[n].price = bar.low
                    /\ bar.volume = SeqSum(sizes)

\* A bar built from two trades that were appended against the order of
\* their timestamps, at different prices, the later one the cheaper.
C8_Witness ==
    \E symbol \in Symbols : \E b \in DOMAIN consumed_buckets[symbol] :
        LET trades == consumed_buckets[symbol][b]
        IN  /\ Len(trades) >= 2
            /\ trades[1].timestamp > trades[2].timestamp
            /\ trades[1].price < trades[2].price

\* C9: for a symbol with a bar before boundary b, if no trade of the interval
\* of b was accepted and a pass beyond b has completed, the window holds a
\* bar at b with volume 0 whose open, high, low and close are the close of
\* the bar at b - candle_interval_ms.
NoTradeAccepted(symbol, b) ==
    \A sig \in AcceptedSignatures(symbol) :
        IntervalStart(SignatureTimestamp(sig)) # b

PassedBoundaries(symbol) ==
    {b \in {k * candle_interval_ms :
               k \in 0..(last_finalized_boundary[symbol] \div candle_interval_ms)} :
        /\ b < last_finalized_boundary[symbol]
        /\ \E i \in BarIndices(symbol) : Bars(symbol)[i].timestamp < b}

IsForwardFill(symbol, b) ==
    \E i, j \in BarIndices(symbol) :
        /\ Bars(symbol)[i].timestamp = b
        /\ Bars(symbol)[j].timestamp = b - candle_interval_ms
        /\ Bars(symbol)[i].volume = 0
        /\ Bars(symbol)[i].open = Bars(symbol)[j].close
        /\ Bars(symbol)[i].high = Bars(symbol)[j].close
        /\ Bars(symbol)[i].low = Bars(symbol)[j].close
        /\ Bars(symbol)[i].close = Bars(symbol)[j].close

C9_ForwardFill ==
    \A symbol \in Symbols : \A b \in PassedBoundaries(symbol) :
        NoTradeAccepted(symbol, b) => IsForwardFill(symbol, b)

\* Two forward-fill bars in a row after a bar built from trades at a price
\* other than zero.
C9_Witness ==
    \E symbol \in Symbols : \E b \in PassedBoundaries(symbol) :
        /\ NoTradeAccepted(symbol, b)
        /\ NoTradeAccepted(symbol, b + candle_interval_ms)
        /\ b + candle_interval_ms \in PassedBoundaries(symbol)
        /\ \E i \in BarIndices(symbol) :
               Bars(symbol)[i].timestamp = b /\ Bars(symbol)[i].close > 0

\* C10: every bar of volume 0 has open = high = low = close = the close of
\* the bar before it in the window (stated for the symbols all of whose
\* accepted trades have a price above zero, and for the bars that have a
\* bar before them).
PositivePricesOnly(symbol) ==
    \A sig \in AcceptedSignatures(symbol) : sig[2] > 0

C10_ZeroVolumeIsForwardFill ==
    \A symbol \in Symbols : \A i \in BarIndices(symbol) :
        (PositivePricesOnly(symbol) /\ Bars(symbol)[i].volume = 0 /\ i > 1)
        => /\ Bars(symbol)[i].open = Bars(symbol)[i - 1].close
           /\ Bars(symbol)[i].high = Bars(symbol)[i - 1].close
           /\ Bars(symbol)[i].low = Bars(symbol)[i - 1].close
           /\ Bars(symbol)[i].close = Bars(symbol)[i - 1].close

\* C11: a symbol none of whose trades was accepted has no bar, whatever
\* passes have run, and the first bar of every window was built from a
\* non-empty bucket of trades, never forward-filled.
C11_FirstBarFromTrades ==
    \A symbol \in Symbols :
        /\ AcceptedSignatures(symbol) = {} => Bars(symbol) = <<>>
        /\ Bars(symbol) # <<>> =>
              /\ Bars(symbol)[1].timestamp \in DOMAIN consumed_buckets[symbol]
              /\ consumed_buckets[symbol][Bars(symbol)[1].timestamp] # <<>>

\* Passes have emitted bars, forward-fills among them, for one symbol while
\* the other symbol, with no accepted trade, was passed over every time.
C11_Witness ==
    \E quiet, busy \in Symbols :
        /\ AcceptedSignatures(quiet) = {}
        /\ last_finalized_boundary[busy] >= 2 * candle_interval_ms
        /\ Len(Bars(busy)) >= 2
        /\ Bars(busy)[2].timestamp \notin DOMAIN consumed_buckets[busy]

\* C12: along the order of emission, over all symbols, the sequence numbers
\* of the bars are strictly increasing, so no two bars share one.
C12_SequenceIncreasing ==
    \A i, j \in 1..Len(emitted) :
        i < j => emitted[i].sequence < emitted[j].sequence

\* Bars of both symbols were emitted, at least three in all.
C12_Witness ==
    /\ Len(emitted) >= 3
    /\ \A symbol \in Symbols : Bars(symbol) # <<>>

\* C13: a symbol that has a bar has its last_finalized_boundary equal to the
\* timestamp of the most recent bar of its window.
C13_BoundaryIsLastBar ==
    \A symbol \in Symbols :
        Bars(symbol) # <<>> =>
            last_finalized_boundary[symbol]
                = Bars(symbol)[Len(Bars(symbol))].timestamp

\* C13, amended: a symbol that has a bar has its last_finalized_boundary one
\* candle interval after the timestamp of the most recent bar of its window:
\* it is the boundary of the pass, the end of that bar's interval.
C13_BoundaryIsEndOfLastBar ==
    \A symbol \in Symbols :
        Bars(symbol) # <<>> =>
            last_finalized_boundary[symbol]
                = Bars(symbol)[Len(Bars(symbol))].timestamp + candle_interval_ms

\* A symbol with at least two bars after the pass at the third boundary.
C13_Witness ==
    \E symbol \in Symbols :
        /\ Len(Bars(symbol)) >= 2
        /\ last_finalized_boundary[symbol] = 3 * candle_interval_ms

\* The step is a pass of the timer that ran to its end.
CompletedPass == timer_pc = "sleep" /\ wake_at' # wake_at /\ ~pass_raised'

\* C28: after a pass that ran to its end at the boundary now_b no symbol
\* has a pending bucket of a boundary before now_b.
C28_NoBucketBehindPass ==
    [][CompletedPass =>
          \A symbol \in Symbols : \A b \in DOMAIN trades_by_interval'[symbol] :
              b >= CurrentBoundary(now)]_vars

\* C26: a pass that raises leaves the timer task asleep for 10 s, never
\* ended, and after every later pass that runs to its end each symbol with
\* a bar has its bars up to the boundary of that pass.
C26_TimerSurvivesError ==
    [][/\ pass_errors' > pass_errors
             => timer_pc' = "sleep" /\ wake_at' = now + TIMER_SLEEP_MS
       /\ timer_pc' # "done"
       /\ CompletedPass
             => \A symbol \in Symbols :
                    candles_buffer'[symbol] # <<>>
                    => /\ last_finalized_boundary'[symbol] = CurrentBoundary(now)
                       /\ candles_buffer'[symbol][Len(candles_buffer'[symbol])].timestamp
                              = CurrentBoundary(now) - candle_interval_ms]_vars

\* A pass raised after it had appended a bar for the first symbol, before
\* it reached the second, and a later pass ran to its end: both
\* symbols have bars.
C26_Witness ==
    /\ pass_errors = 1
    /\ ~pass_raised
    /\ timer_pc = "sleep"
    /\ \A symbol \in Symbols : Len(Bars(symbol)) >= 2
    /\ \E i \in BarIndices(coins[1]) :
           i > 1 /\ Bars(coins[1])[i].timestamp = Bars(coins[1])[i - 1].timestamp

\* C29: the dedup set of a symbol never holds more than DEDUP_SOFT_CAP
\* signatures.
C29_DedupSetCapped ==
    \A symbol \in Symbols :
        Cardinality(seen_trade_signatures[symbol]) <= DEDUP_SOFT_CAP

\* C31: after every pass that ran to its end at the boundary now_b, every
\* symbol of which a trade had been accepted has last_finalized_boundary =
\* now_b, and every symbol with a bar has its latest bar at
\* now_b - candle_interval_ms.
C31_LockStep ==
    [][CompletedPass =>
          \A symbol \in Symbols :
              /\ AcceptedSignatures(symbol) # {}
                    => last_finalized_boundary'[symbol] = CurrentBoundary(now)
              /\ candles_buffer'[symbol] # <<>>
                    => candles_buffer'[symbol][Len(candles_buffer'[symbol])].timestamp
                           = CurrentBoundary(now) - candle_interval_ms]_vars

\* Both symbols have bars, their first bars at different boundaries, and the
\* pass at the third boundary has brought both to it.
C31_Witness ==
    /\ \A symbol \in Symbols :
           /\ Bars(symbol) # <<>>
           /\ last_finalized_boundary[symbol] = 3 * candle_interval_ms
           /\ Bars(symbol)[Len(Bars(symbol))].timestamp = 2 * candle_interval_ms
    /\ Bars(coins[1])[1].timestamp # Bars(coins[2])[1].timestamp

\* The signatures of a symbol that the step appends to a pending bucket.
InsertedNow(symbol) ==
    {sig \in DOMAIN insert_count'[symbol] :
        sig \notin DOMAIN insert_count[symbol]
        \/ insert_count'[symbol][sig] > insert_count[symbol][sig]}

\* C33: an ingestion that brings the dedup set of a symbol above
\* DEDUP_SOFT_CAP signatures leaves in it exactly the signatures stamped at
\* or after the wall-clock time of the ingestion minus DEDUP_TTL_MS: every
\* older one is removed, no younger one is.
C33_EvictsByWallClock ==
    [][\A symbol \in Symbols :
          LET added == seen_trade_signatures[symbol] \cup InsertedNow(symbol)
          IN  (/\ Cardinality(seen_trade_signatures[symbol]) >= DEDUP_SOFT_CAP
               /\ InsertedNow(symbol) # {}
               /\ Cardinality(added) > DEDUP_SOFT_CAP)
              => seen_trade_signatures'[symbol] =
                     {sig \in added :
                         SignatureTimestamp(sig) >= now - DEDUP_TTL_MS}]_vars

\* The step is lines 83-121 of an iteration of the driver.
CollectStep == driver_pc = "collect" /\ driver_pc' = "process"

\* The fields of the aggregator that the step leaves alone.
SameAggregator ==
    /\ candles_buffer' = candles_buffer
    /\ candle_start_time' = candle_start_time
    /\ last_finalized_boundary' = last_finalized_boundary
    /\ last_close_price' = last_close_price
    /\ trades_by_interval' = trades_by_interval
    /\ seen_trade_signatures' = seen_trade_signatures
    /\ candle_sequence' = candle_sequence

\* C34: only a pass of the timer changes a window; an ingestion changes no
\* window, last_finalized_boundary or last_close_price; an evaluation of
\* the driver changes no field of the aggregator; and a bar that is in a
\* window stays in it, at its place, as it is.
C34_OnlyFinalizerEmits ==
    [][/\ candles_buffer' # candles_buffer
             => timer_pc = "sleep" /\ wake_at' # wake_at
       /\ seen_trade_signatures' # seen_trade_signatures
             => /\ candles_buffer' = candles_buffer
                /\ last_finalized_boundary' = last_finalized_boundary
                /\ last_close_price' = last_close_price
       /\ CollectStep => SameAggregator
       /\ \A symbol \in Symbols :
              /\ Len(candles_buffer'[symbol]) >= Len(candles_buffer[symbol])
              /\ \A i \in BarIndices(symbol) :
                     candles_buffer'[symbol][i] = candles_buffer[symbol][i]]_vars

\* The driver has evaluated a window of two bars, which is still the window
\* of the symbol, and a trade was accepted for the symbol after its latest
\* pass.
C34_Witness ==
    /\ driver_pc = "process"
    /\ \E i \in 1..Len(coin_signals) :
           LET coin == coin_signals[i].coin
           IN  /\ coin_signals[i].candle_count = 2
               /\ coin_signals[i].window = candles_buffer[coin]
               /\ \E b \in DOMAIN trades_by_interval[coin] :
                      b >= last_finalized_boundary[coin]

\* C36: a pass that runs to its end at the boundary now_b turns every
\* pending bucket of a boundary b with last_finalized_boundary <= b < now_b
\* into exactly one bar, the bar with timestamp b, built from all the trades
\* of the bucket; the trades of such a bucket were accepted when b was not
\* behind last_finalized_boundary, which never decreases.
C36_NoAcceptedTickLost ==
    [][CompletedPass =>
          \A symbol \in Symbols : \A b \in DOMAIN trades_by_interval[symbol] :
              (last_finalized_boundary[symbol] <= b /\ b < CurrentBoundary(now))
              => /\ b \in DOMAIN consumed_buckets'[symbol]
                 /\ consumed_buckets'[symbol][b] = trades_by_interval[symbol][b]
                 /\ Cardinality({i \in 1..Len(candles_buffer'[symbol]) :
                        candles_buffer'[symbol][i].timestamp = b}) = 1]_vars

\* C37: no pass, and so no pass that follows a pass which raised, appends
\* to a window a bar whose timestamp a bar of the window has already.
C37_NoDuplicateAfterAbort ==
    [][\A symbol \in Symbols :
          \A i \in (Len(candles_buffer[symbol]) + 1)..Len(candles_buffer'[symbol]) :
              \A j \in BarIndices(symbol) :
                  candles_buffer'[symbol][i].timestamp
                      # candles_buffer[symbol][j].timestamp]_vars

\* C40: the last_close_price of a symbol is None exactly when its window is
\* empty, and is otherwise the close of the latest bar of its window.
C40_LastCloseIsLastBar ==
    \A symbol \in Symbols :
        /\ last_close_price[symbol] = None <=> Bars(symbol) = <<>>
        /\ Bars(symbol) # <<>>
              => last_close_price[symbol]
                     = Some(Bars(symbol)[Len(Bars(symbol))].close)

\* One symbol has a bar whose open and close differ, followed by a
\* forward-fill bar; the other symbol has passed through the same passes
\* without a bar.
C40_Witness ==
    \E busy, quiet \in Symbols :
        /\ Len(Bars(busy)) >= 2
        /\ Bars(busy)[1].open # Bars(busy)[1].close
        /\ Bars(busy)[Len(Bars(busy))].volume = 0
        /\ Bars(quiet) = <<>>
        /\ last_close_price[quiet] = None

(***************************************************************************)
(* Properties of the driver loop                                           *)
(***************************************************************************)
\* The transitions to true in a sequence of signals: true after false, or
\* true at the start.
Rising(out) ==
    Cardinality({i \in 1..Len(out) : out[i] /\ (i = 1 \/ ~out[i - 1])})

\* send_signals_loop is under way for the coin.
InBatch(coin) ==
    /\ driver_pc \in {"attempt", "retry_sleep"}
    /\ coin_signals[signal_index].coin = coin

\* C14: outside a batch of posts, every (strategy, server) pair has been
\* posted to, for a coin, exactly once per transition of the coin's signal
\* to true (from false or from no recorded signal): nothing is posted
\* while the signal stays true or when it becomes false.
C14_PostOnRisingEdge ==
    \A coin \in Symbols :
        ~InBatch(coin) =>
            \A p \in 1..Len(Pairs) : posted[coin][p] = Rising(outputs[coin])

\* The signals false, false, true, true, false have been processed: one
\* post per pair.
C14_Witness ==
    /\ driver_pc = "collect"
    /\ outputs[coins[1]] = <<FALSE, FALSE, TRUE, TRUE, FALSE>>
    /\ \A p \in 1..Len(Pairs) : posted[coins[1]][p] = 1

\* C15: a row is written to the signal log for a coin only in a step that
\* processes a signal of the coin which differs from the recorded last
\* signal (or none is recorded) and carries no validation_error.
C15_RowOnlyOnChange ==
    [][\A coin \in Symbols :
          signal_rows'[coin] > signal_rows[coin]
          => LET entry == coin_signals[signal_index]
             IN  /\ entry.coin = coin
                 /\ entry.validation_error = ""
                 /\ coin_last_signal[coin] # Some(entry.signal)]_vars

\* The validation of a window: too short, last candle without volume, or
\* an invalid candle in it.
FailsValidation(window) ==
    \/ Len(window) < WARMUP_INTERVALS
    \/ window[Len(window)].volume = 0
    \/ \E i \in 1..Len(window) :
           \/ window[i].high < window[i].low
           \/ window[i].close < window[i].low
           \/ window[i].close > window[i].high

\* C16: an evaluation of a window that fails the validation carries a
\* validation_error; an evaluation that carries one has the signal false,
\* and the step that processes it writes no row to the signal log and
\* starts no post.
C16_NoEgressOnValidationError ==
    [][/\ \A i \in 1..Len(coin_signals) :
             /\ FailsValidation(coin_signals[i].window)
                    => coin_signals[i].validation_error # ""
             /\ coin_signals[i].validation_error # ""
                    => ~coin_signals[i].signal
       /\ (/\ driver_pc = "process"
           /\ signal_index <= Len(coin_signals)
           /\ coin_signals[signal_index].validation_error # "")
          => /\ signal_rows' = signal_rows
             /\ posted' = posted
             /\ driver_pc' # "attempt"]_vars

\* After the warm-up is complete, an iteration has processed a window
\* whose last candle is a forward-fill and a window with an invalid candle,
\* and no row has been written and nothing posted.
C16_Witness ==
    /\ driver_pc = "process"
    /\ warmup_complete
    /\ Len(coin_signals) = 2
    /\ signal_index > 2
    /\ coin_signals[1].validation_error = "No trades in last candle (forward-fill)"
    /\ coin_signals[2].validation_error = "Invalid candle"
    /\ \A coin \in Symbols :
           signal_rows[coin] = 0 /\ \A p \in 1..Len(Pairs) : posted[coin][p] = 0

\* C24: the evaluation of a window of at least WARMUP_INTERVALS bars whose
\* last bar has volume, and which holds a bar with high < low or with its
\* close or its open outside [low, high], has the signal false and the
\* validation_error of an invalid candle.
C24_InvalidCandleRejected ==
    \A i \in 1..Len(coin_signals) :
        LET window == coin_signals[i].window
        IN  (/\ Len(window) >= WARMUP_INTERVALS
             /\ window[Len(window)].volume # 0
             /\ \E k \in 1..Len(window) :
                    \/ window[k].high < window[k].low
                    \/ window[k].close < window[k].low
                    \/ window[k].close > window[k].high
                    \/ window[k].open < window[k].low
                    \/ window[k].open > window[k].high)
            => /\ ~coin_signals[i].signal
               /\ coin_signals[i].validation_error = "Invalid candle"

\* An answer with a status of 200 to 299.
Is2xx(status) == status \in 200..299

\* After n attempts of a post, a further attempt is pending or under way.
RetryPending(n) ==
    \/ driver_pc = "retry_sleep"
    \/ driver_pc = "attempt" /\ attempt = n

C18_Non2xxIsRetried ==
    LET n == Len(post_statuses)
    IN  n >= 1 =>
            /\ (~Is2xx(post_statuses[n]) /\ n < max_retries) => RetryPending(n)
            /\ Is2xx(post_statuses[n]) => ~RetryPending(n)

\* C23: a coin is excluded in the iteration, and only in the iteration,
\* that finds it with no bar in the store more than 600 s after the driver
\* first saw it; a coin that has a bar then is not excluded; an excluded
\* coin stays excluded and is not evaluated, logged or posted for again,
\* whatever the store holds for it.
C23_ExcludedWhenIdle ==
    [][\A coin \in Symbols :
          /\ coin \in excluded_coins => coin \in excluded_coins'
          /\ coin \in excluded_coins' \ excluded_coins
                 => /\ CollectStep
                    /\ store_count'[coin] = 0
                    /\ coin \in DOMAIN coin_first_seen
                    /\ now - coin_first_seen[coin] > EXCLUDE_AFTER_MS
          /\ (/\ CollectStep
              /\ coin \notin excluded_coins
              /\ store_count'[coin] = 0
              /\ coin \in DOMAIN coin_first_seen
              /\ now - coin_first_seen[coin] > EXCLUDE_AFTER_MS)
                 => coin \in excluded_coins'
          /\ coin \in excluded_coins'
                 => /\ \A i \in 1..Len(coin_signals') : coin_signals'[i].coin # coin
                    /\ outputs'[coin] = outputs[coin]
                    /\ signal_rows'[coin] = signal_rows[coin]
                    /\ posted'[coin] = posted[coin]]_vars

\* The first coin is excluded, an iteration after its exclusion has run to
\* its end with a complete window in the store for it, and nothing was ever
\* posted for it; the other coin, which had a bar, is not excluded.
C23_Witness ==
    /\ coins[1] \in excluded_coins
    /\ coins[2] \notin excluded_coins
    /\ now > EXCLUDE_AFTER_MS
    /\ store_count[coins[1]] = WARMUP_INTERVALS
    /\ driver_pc = "process"
    /\ signal_index > Len(coin_signals)
    /\ \A p \in 1..Len(Pairs) : posted[coins[1]][p] = 0

\* No entry of the iteration carries the validation_error of the warm-up.
NoWarmupError(signals) ==
    \A i \in 1..Len(signals) : ~IsWarmupError(signals[i].validation_error)

\* C39: a row is written to the signal log only while warmup_complete is
\* true; warmup_complete becomes true in the iteration of the driver, and
\* only in an iteration, in which no coin that is not excluded reports the
\* validation_error of the warm-up; and once true it stays true.
C39_SignalLogGatedByWarmup ==
    [][/\ signal_rows' # signal_rows => warmup_complete
       /\ (~warmup_complete /\ warmup_complete')
             => CollectStep /\ NoWarmupError(coin_signals')
       /\ (CollectStep /\ NoWarmupError(coin_signals')) => warmup_complete'
       /\ warmup_complete => warmup_complete']_vars

\* The first coin was evaluated to a true signal without a validation_error
\* in two iterations, the first of them before the warm-up was complete: one
\* row was written for it, in the second.
C39_Witness ==
    /\ warmup_complete
    /\ outputs[coins[1]] = <<TRUE, TRUE>>
    /\ signal_rows[coins[1]] = 1
    /\ signal_rows[coins[2]] = 0

(***************************************************************************)
(* Properties of the connection tasks                                      *)
(***************************************************************************)
\* The backoff of spec 4.1, in seconds, after k consecutive failures.
Backoff(k) ==
    CASE k = 1 -> 5
      [] k \in 2..3 -> 10
      [] k \in 4..5 -> 30
      [] OTHER -> 60

\* C19: a connection sleeping before it connects again has had k >= 1
\* failures since its last successful connect, the loss of an established
\* connection counted, and sleeps 5 s for k = 1, 10 s for k in 2..3, 30 s
\* for k in 4..5 and 60 s for k >= 6; while it is established its failure
\* count is 0.
C19_BackoffByFailures ==
    \A c \in Connections :
        /\ conn_pc[c] = "backoff"
              => /\ failures_since_connect[c] >= 1
                 /\ reconnect_delay[c] = Backoff(failures_since_connect[c])
        /\ conn_pc[c] = "receiving" => consecutive_failures[c] = 0

\* C20: a connection whose socket has gone READ_TIMEOUT_S seconds without
\* a message is not reading from that socket any more.
C20_ReadTimeoutReconnects ==
    \A c \in Connections : timed_out[c] => conn_pc[c] # "receiving"

\* C32: while the running flag is set, a connection task that met a failed
\* connect, a closed connection or a read timeout connects again
\* eventually, and no task ends.
C32_AlwaysReconnects ==
    /\ \A c \in Connections :
           (conn_pc[c] \in {"backoff", "pause"}) ~> (conn_pc[c] = "connecting")
    /\ [](running => \A c \in DOMAIN conn_pc : ~Done(conn_pc[c]))

(***************************************************************************)
(* Properties of the candle log                                            *)
(***************************************************************************)
\* C35: the candles are written to the log in strictly increasing order of
\* their sequence numbers; the candles written followed by the candles on
\* the queue are the candles appended to the buffers, each once and in the
\* order of their appends; and the candles on the queue are written
\* eventually: the queue is emptied again.
C35_LogInSequenceOrder ==
    /\ [](\A i, j \in 1..Len(written) :
             i < j => written[i].sequence < written[j].sequence)
    /\ [](written \o candle_log_queue = emitted)
    /\ (candle_log_queue # <<>>) ~> (candle_log_queue = <<>>)

\* The worker has written the candles of two passes in two cycles or more,
\* candles of both symbols of one pass among them, and the queue is empty.
C35_Witness ==
    /\ candle_log_queue = <<>>
    /\ Len(written) >= 4
    /\ \A symbol \in Symbols : Len(Bars(symbol)) >= 2
    /\ \E i \in 1..(Len(written) - 1) :
           written[i].timestamp > written[i + 1].timestamp

(***************************************************************************)
(* Properties of the start of the engine                                   *)
(***************************************************************************)
Ceil(a, b) == (a + b - 1) \div b

\* C21: the number of connection tasks start_connection creates is the
\* number of symbols divided by max_coins_per_connection, rounded up.
C21_GroupsAreCeil ==
    running =>
        Len(connection_tasks) = Ceil(Len(filtered_coins), max_coins_per_connection)

RECURSIVE Flatten(_)
Flatten(groups) ==
    IF groups = <<>> THEN <<>> ELSE Head(groups) \o Flatten(Tail(groups))

Members(group) == {group[i] : i \in 1..Len(group)}

\* C22: the chunks the connection tasks are created with are non-empty, hold
\* at most max_coins_per_connection symbols each, are pairwise disjoint, and
\* concatenated in order they are the symbol list.
C22_PartitionExact ==
    running =>
        /\ \A k \in 1..Len(connection_tasks) :
               /\ connection_tasks[k] # <<>>
               /\ Len(connection_tasks[k]) <= max_coins_per_connection
        /\ \A j, k \in 1..Len(connection_tasks) :
               j # k => Members(connection_tasks[j]) \cap Members(connection_tasks[k]) = {}
        /\ Flatten(connection_tasks) = filtered_coins

\* Five symbols were split into chunks of two, two and one.
C22_Witness ==
    /\ running
    /\ Len(filtered_coins) = 5
    /\ Len(connection_tasks) = 3
    /\ Len(connection_tasks[1]) = 2
    /\ Len(connection_tasks[3]) = 1

\* C38: the number of connection tasks start_connection creates is the
\* value of _calculate_needed_connections, and is at most max_connections.
C38_TasksAreNeededConnections ==
    running =>
        /\ Len(connection_tasks) =
               calculate_needed_connections(filtered_coins,
                                            max_coins_per_connection,
                                            max_connections)
        /\ Len(connection_tasks) <= max_connections

\* C27: with an empty symbol list main() does not reach its loop, and
\* neither the timer task nor a connection task is created.
C27_EmptyListIsFatal ==
    filtered_coins = <<>> =>
        /\ main_pc # "loop"
        /\ ~running
        /\ timer_pc = "idle"

(***************************************************************************)
(* Properties of the shutdown                                              *)
(***************************************************************************)
\* stop() has been called.
StopRequested == cancel_pending # {} \/ Done(timer_pc)

\* The timer task and every connection task are done.
AllTasksDone ==
    /\ Done(timer_pc)
    /\ \A c \in DOMAIN conn_pc : Done(conn_pc[c])

\* C25: once stop() has been called the running flag is cleared, the timer
\* task and every connection task are done eventually, and after they are
\* done no window changes.
C25_ShutdownTerminates ==
    /\ [](StopRequested => ~running)
    /\ StopRequested ~> AllTasksDone
    /\ [][AllTasksDone => candles_buffer' = candles_buffer]_vars

\* stop() was called after a bar was appended, while one connection was
\* reading and the other was not, and every task is done.
C25_Witness ==
    /\ AllTasksDone
    /\ cancel_pending = {}
    /\ \E symbol \in Symbols : Bars(symbol) # <<>>
    /\ \E c, d \in DOMAIN conn_pc :
           conn_pc[c] = "returned" /\ conn_pc[d] = "cancelled"

====
